---- MODULE Spec2Model ----
(***************************************************************************)
(* HNSW index of the hnsw package: node arena, entry point, layer search,  *)
(* neighbour selection and insertion.                                      *)
(*                                                                         *)
(* Spec     : one caller; Add, Search and Len run to completion.           *)
(* SpecConc : several goroutines; every access to shared memory is a step. *)
(***************************************************************************)
EXTENDS Integers, Sequences, FiniteSets, TLC

VARIABLES
    nodes,          \* h.nodes: the arena, node id i is nodes[i+1]
    entryPoint,     \* h.entryPoint
    maxLevel,       \* h.maxLevel
    efConstruction, \* h.efConstruction, fixed by NewHNSW
    globalLock,     \* h.globalLock: 0, or the goroutine holding it for writing
    nodeLocks,      \* h.nodeLocks: per node 0, or the goroutine holding it for writing
    th,             \* per goroutine: position and locals of the call it is running
    ret,            \* what the last completed call of the single caller returned
    panicked,       \* TRUE once a goroutine has panicked (the process is gone)
    returned,       \* returned[i+1]: how many successful Add calls have returned id i
    w               \* the column Writer of lance/column: its fields

vars == <<nodes, entryPoint, maxLevel, efConstruction, globalLock, nodeLocks, th, ret,
          panicked, returned, w>>

----------------------------------------------------------------------------
(* Bounds of the model *)

MaxNodes == 4       \* Spec: nodes added by the single caller
MaxComp == 2        \* Spec: vector components range over 0..MaxComp
DeepNodes == 6      \* SpecDeep: nodes added by the single caller
DeepComp == 1       \* SpecDeep: vector components range over 0..DeepComp
Goroutines == 2     \* SpecConc: goroutines calling Add
ConcNodes == 3      \* SpecConc: nodes added by all goroutines together
CrowdNodes == 4     \* SpecCrowd: nodes in the index once every Add has returned
ConcComp == 1       \* SpecConc: vector components range over 0..ConcComp
ConcLevel == 2      \* SpecConc: levels drawn by randomLevel range over 0..ConcLevel
MaxLevel == 1       \* levels drawn by randomLevel range over 0..MaxLevel
MaxK == 3           \* Spec: Search is called with k in 1..MaxK
MaxEf == 2          \* Search is called with ef in 0..MaxEf
MaxEfConstruction == 2  \* Config.EfConstruction in 1..MaxEfConstruction
DeepEf == 1         \* SpecDeep: Search is called with ef in 0..DeepEf
TrioNodes == 5      \* SpecTrio: at most TrioNodes nodes are added
TrioComp == 1       \* SpecTrio: vector components are in 0..TrioComp
MaxSelLen == 3      \* SpecSelect: selectNeighborsHeuristic is called with 0..MaxSelLen candidates
MaxSelDist == 2     \* SpecSelect: the candidates' distances are in 0..MaxSelDist
MaxSelM == 3        \* SpecSelect: selectNeighborsHeuristic is called with m in 1..MaxSelM
NumCols == 2        \* SpecWriter: fields of the Writer's schema
MaxBatchRows == 2   \* SpecWriter: a batch has 0..MaxBatchRows rows
MaxRows == 4        \* SpecWriter: ... and its row count leaves room for a batch
MaxPages == 4       \* SpecWriter: an open Writer is written to while it has room for a batch
MaxDistLen == 3     \* SpecDist: L2Distance is called on vectors of 0..MaxDistLen components
MaxDistComp == 6    \* SpecDist: with components in 0..MaxDistComp

\* goroutines calling Add and Search: nodes, largest component, top level, k, ef
FineNodes == 3
FineComp == 0
FineLevel == 1
FineK == 1
FineEf == 0

\* SpecPrune: nodes, largest component of the two first vectors, top level of the
\* nodes added
PruneNodes == 5
PruneComp == 0
PruneLevel == 1

(* Configuration *)

M == 2
Mmax == M
Mmax0 == M * 2
dimension == 1

ErrDimensionMismatch == "ErrDimensionMismatch"
ErrEmptyIndex == "ErrEmptyIndex"

GoodVectors(maxComp) == [1..dimension -> 0..maxComp]
BadVectors == {<<>>, [i \in 1..(dimension + 1) |-> 0]}
Levels == 0..MaxLevel

min(a, b) == IF a < b THEN a ELSE b
max(a, b) == IF a > b THEN a ELSE b

----------------------------------------------------------------------------
(* distance.go *)

\* SumSq adding the differences without squaring them
RECURSIVE SumSq_NoSquare(_, _, _)
SumSq_NoSquare(a, b, i) ==
    IF i > Len(a) THEN 0
    ELSE (a[i] - b[i]) + SumSq_NoSquare(a, b, i + 1)

RECURSIVE SumSq(_, _, _)
SumSq(a, b, i) ==
    IF i > Len(a) THEN 0
    ELSE (a[i] - b[i]) * (a[i] - b[i]) + SumSq(a, b, i + 1)

L2Distance(a, b) == SumSq(a, b, 1)

distFunc(a, b) == L2Distance(a, b)

----------------------------------------------------------------------------
(* node.go *)

NewNode(id, vector, level) ==
    [id |-> id, vector |-> vector, level |-> level,
     connections |-> [i \in 1..(level + 1) |-> <<>>]]

GetConnections(n, level) ==
    IF level < 0 \/ level >= Len(n.connections) THEN <<>>
    ELSE n.connections[level + 1]

AddConnection(n, level, neighborID) ==
    IF level < 0 \/ level >= Len(n.connections) THEN n
    ELSE [n EXCEPT !.connections[level + 1] = Append(@, neighborID)]

SetConnections(n, level, neighbors) ==
    IF level < 0 \/ level >= Len(n.connections) THEN n
    ELSE [n EXCEPT !.connections[level + 1] = neighbors]

ConnectionCount(n, level) ==
    IF level < 0 \/ level >= Len(n.connections) THEN 0
    ELSE Len(n.connections[level + 1])

----------------------------------------------------------------------------
(* container/heap over PriorityQueue (min-heap) and MaxHeap.  A heap is a  *)
(* sequence of items; Go index i is position i+1.                          *)

Item(id, d) == [value |-> id, priority |-> d]

\* PriorityQueue.Less with the comparison of the max-heap
PQLess_Max(h, i, j) == h[i + 1].priority > h[j + 1].priority

PQLess(h, i, j) == h[i + 1].priority < h[j + 1].priority

\* MaxHeap.Less with the comparison of the min-heap
MaxHeapLess_Min(h, i, j) == h[i + 1].priority < h[j + 1].priority

MaxHeapLess(h, i, j) == h[i + 1].priority > h[j + 1].priority

Less(isMax, h, i, j) == IF isMax THEN MaxHeapLess(h, i, j) ELSE PQLess(h, i, j)

Swap(h, i, j) == [h EXCEPT ![i + 1] = h[j + 1], ![j + 1] = h[i + 1]]

RECURSIVE up(_, _, _)
up(isMax, h, j) ==
    LET i == IF j = 0 THEN 0 ELSE (j - 1) \div 2
    IN  IF i = j \/ ~Less(isMax, h, j, i) THEN h
        ELSE up(isMax, Swap(h, i, j), i)

RECURSIVE down(_, _, _, _)
down(isMax, h, i, n) ==
    LET j1 == 2 * i + 1
    IN  IF j1 >= n THEN h
        ELSE LET j2 == j1 + 1
                 j == IF j2 < n /\ Less(isMax, h, j2, j1) THEN j2 ELSE j1
             IN  IF ~Less(isMax, h, j, i) THEN h
                 ELSE down(isMax, Swap(h, i, j), j, n)

HeapPush(isMax, h, x) == up(isMax, Append(h, x), Len(h))

\* MaxHeap.Pop / PriorityQueue.Pop: the last item taken off the slice
PopLast(h) == [item |-> h[Len(h)], heap |-> SubSeq(h, 1, Len(h) - 1)]

\* heap.Pop: the root swapped to the end, the heap restored, the last item taken
HeapPop(isMax, h) == PopLast(down(isMax, Swap(h, 0, Len(h) - 1), 0, Len(h) - 1))

Peek(h) == h[1]

----------------------------------------------------------------------------
(* search.go: searchLayer.  The loop state s holds visited, candidates,    *)
(* results and whether an index ran out of range (a panic).                *)

SearchResult(id, d) == [ID |-> id, Distance |-> d]

slInit(ns, query, ep) ==
    LET epDist == distFunc(query, ns[ep + 1].vector)
    IN  [visited |-> {ep},
         candidates |-> HeapPush(TRUE, <<>>, Item(ep, epDist)),
         results |-> HeapPush(TRUE, <<>>, Item(ep, epDist)),
         panic |-> FALSE]

\* slPushBoth with the push onto the result set left out
slPushBoth_CandidatesOnly(s, item) ==
    [s EXCEPT !.candidates = HeapPush(TRUE, @, item)]

\* the two heap.Push calls for a neighbour that is kept
slPushBoth(s, item) ==
    [s EXCEPT !.candidates = HeapPush(TRUE, @, item),
              !.results = HeapPush(TRUE, @, item)]

\* slTrim never taking the furthest result out
slTrim_Never(s, ef) == s

\* "if results.Len() > ef { heap.Pop(results) }"
slTrim(s, ef) ==
    IF Len(s.results) > ef THEN [s EXCEPT !.results = HeapPop(TRUE, @).heap] ELSE s

\* slOffer keeping, once the result set is full, the neighbours that are further
slOffer_Further(s, ef, item) ==
    IF Len(s.results) < ef THEN slPushBoth(s, item)
    ELSE IF item.priority > Peek(s.results).priority THEN slTrim(slPushBoth(s, item), ef)
    ELSE s

\* a neighbour with its distance computed: kept while the result set is not full,
\* or when it is closer than the furthest result, which then leaves
slOffer(s, ef, item) ==
    IF Len(s.results) < ef THEN slPushBoth(s, item)
    ELSE IF item.priority < Peek(s.results).priority THEN slTrim(slPushBoth(s, item), ef)
    ELSE s

\* the body of "for _, neighborID := range neighborsCopy" for one neighbour
slVisit(ns, query, ef, s, neighborID) ==
    IF neighborID \in s.visited THEN s
    ELSE IF neighborID < 0 \/ neighborID >= Len(ns) THEN [s EXCEPT !.panic = TRUE]
    ELSE slOffer([s EXCEPT !.visited = @ \cup {neighborID}], ef,
                 Item(neighborID, distFunc(query, ns[neighborID + 1].vector)))

RECURSIVE slExpand(_, _, _, _, _)
slExpand(ns, query, ef, s, neighborsCopy) ==
    IF neighborsCopy = <<>> \/ s.panic THEN s
    ELSE slExpand(ns, query, ef, slVisit(ns, query, ef, s, Head(neighborsCopy)),
                  Tail(neighborsCopy))

\* slBreak leaving the loop already at equal distance
slBreak_OnEqual(current, results) ==
    Len(results) > 0 /\ current.priority >= Peek(results).priority

\* the test that breaks out of the loop: current is further than the furthest result
slBreak(current, results) ==
    Len(results) > 0 /\ current.priority > Peek(results).priority

\* the popped candidate p.item, whether the loop ends with it, the state left
slPopped(s, p) ==
    [current |-> p.item,
     stop |-> slBreak(p.item, s.results),
     s |-> [s EXCEPT !.candidates = p.heap]]

\* "current := heap.Pop(candidates)" and the test that breaks out of the loop
slPop(s) == slPopped(s, HeapPop(TRUE, s.candidates))

RECURSIVE slLoop(_, _, _, _, _)
RECURSIVE slStep(_, _, _, _, _)

\* the loop body after the pop
slStep(ns, query, ef, level, p) ==
    IF p.stop THEN p.s
    ELSE slLoop(ns, query, ef, level,
                slExpand(ns, query, ef, p.s,
                         GetConnections(ns[p.current.value + 1], level)))

slLoop(ns, query, ef, level, s) ==
    IF Len(s.candidates) = 0 \/ s.panic THEN s
    ELSE slStep(ns, query, ef, level, slPop(s))

RECURSIVE slDrain(_)

\* slPlace putting each popped item at the front of the rest
slPlace_Forward(p) ==
    <<SearchResult(p.item.value, p.item.priority)>> \o slDrain(p.heap)

\* "resultArray[i] = SearchResult{...}" for i from the last index down: the popped
\* item goes behind the items popped after it
slPlace(p) ==
    Append(slDrain(p.heap), SearchResult(p.item.value, p.item.priority))

\* results drained from the max-heap into an array filled from its end
slDrain(results) ==
    IF results = <<>> THEN <<>> ELSE slPlace(HeapPop(TRUE, results))

searchLayer(ns, query, ep, ef, level) ==
    slDrain(slLoop(ns, query, ef, level, slInit(ns, query, ep)).results)

----------------------------------------------------------------------------
(* insert.go: selectNeighborsHeuristic *)

RECURSIVE pushAll(_, _)
pushAll(pq, candidates) ==
    IF candidates = <<>> THEN pq
    ELSE pushAll(HeapPush(FALSE, pq, Item(Head(candidates).ID, Head(candidates).Distance)),
                 Tail(candidates))

RECURSIVE popUpTo(_, _, _)

\* "selected = append(selected, SearchResult{...})" for the item popped
popNext(p, i, m) ==
    <<SearchResult(p.item.value, p.item.priority)>> \o popUpTo(p.heap, i + 1, m)

popUpTo(pq, i, m) ==
    IF ~(i < m /\ Len(pq) > 0) THEN <<>>
    ELSE popNext(HeapPop(FALSE, pq), i, m)

\* every call ranked through the heap, the short ones too
selectNeighborsHeuristic_AlwaysRank(candidates, m) ==
    popUpTo(pushAll(<<>>, candidates), 0, m)

selectNeighborsHeuristic(candidates, m) ==
    IF Len(candidates) <= m THEN candidates
    ELSE popUpTo(pushAll(<<>>, candidates), 0, m)

----------------------------------------------------------------------------
(* insert.go: insert *)

maxConnAt(lc) == IF lc = 0 THEN Mmax0 ELSE Mmax

IDs(rs) == [i \in 1..Len(rs) |-> rs[i].ID]

\* "newNode.AddConnection(lc, neighbor.ID)", no lock taken: append writes back the
\* list it read (conns) with neighborID behind it
linkOwnFrom(ns, newNodeID, lc, neighborID, conns) ==
    [ns EXCEPT ![newNodeID + 1] = SetConnections(@, lc, Append(conns, neighborID))]

linkOwn(ns, newNodeID, lc, neighborID) ==
    linkOwnFrom(ns, newNodeID, lc, neighborID, GetConnections(ns[newNodeID + 1], lc))

\* "candidatesForPrune": the ids of conns, each with its distance from the
\* neighbour's own vector
candidatesForPrune(ns, neighborID, conns) ==
    [i \in 1..Len(conns) |->
        SearchResult(conns[i], distFunc(ns[neighborID + 1].vector, ns[conns[i] + 1].vector))]

\* the list a neighbour keeps of conns: trimmed to maxConn by distance from the
\* neighbour's own vector when it is longer than maxConn
prunedList(ns, neighborID, conns, maxConn) ==
    IF Len(conns) > maxConn
    THEN IDs(selectNeighborsHeuristic(candidatesForPrune(ns, neighborID, conns), maxConn))
    ELSE conns

\* linkBackFrom leaving the neighbour's list as it was read
linkBackFrom_NoEdge(ns, newNodeID, lc, neighborID, conns) ==
    [ns EXCEPT ![neighborID + 1] = SetConnections(@, lc, conns)]

\* linkBackFrom writing the new node's vector into the neighbour as well
linkBackFrom_VectorToo(ns, newNodeID, lc, neighborID, conns) ==
    [ns EXCEPT ![neighborID + 1] =
        [SetConnections(@, lc, prunedList(ns, neighborID, Append(conns, newNodeID),
                                          maxConnAt(lc)))
            EXCEPT !.vector = ns[newNodeID + 1].vector]]

\* the section of insert between nodeLocks[neighbor.ID].Lock() and Unlock(); conns
\* is the neighbour's list as read under the lock
linkBackFrom(ns, newNodeID, lc, neighborID, conns) ==
    [ns EXCEPT ![neighborID + 1] =
        SetConnections(@, lc, prunedList(ns, neighborID, Append(conns, newNodeID),
                                         maxConnAt(lc)))]

linkBack(ns, newNodeID, lc, neighborID) ==
    linkBackFrom(ns, newNodeID, lc, neighborID, GetConnections(ns[neighborID + 1], lc))

\* "for _, neighbor := range neighbors" run to its end
RECURSIVE linkAll(_, _, _, _)
linkAll(ns, newNodeID, lc, neighbors) ==
    IF neighbors = <<>> THEN ns
    ELSE linkAll(linkBack(linkOwn(ns, newNodeID, lc, Head(neighbors).ID),
                          newNodeID, lc, Head(neighbors).ID),
                 newNodeID, lc, Tail(neighbors))

\* phase 1: greedy descent with ef = 1 from layer lc down to layer stop + 1
RECURSIVE descend(_, _, _, _, _)
descend(ns, query, currentNearest, lc, stop) ==
    IF ~(lc > stop) THEN currentNearest
    ELSE descend(ns, query, searchLayer(ns, query, currentNearest, 1, lc)[1].ID, lc - 1, stop)

\* phase 2: connections from layer lc down to layer 0
RECURSIVE build(_, _, _, _, _)

\* layer lc once its neighbors are selected: the edges, then the next layer from
\* the closest neighbour
buildLayer(ns, efc, newNodeID, currentNearest, lc, neighbors) ==
    build(linkAll(ns, newNodeID, lc, neighbors), efc, newNodeID,
          IF Len(neighbors) > 0 THEN neighbors[1].ID ELSE currentNearest,
          lc - 1)

build(ns, efc, newNodeID, currentNearest, lc) ==
    IF ~(lc >= 0) THEN ns
    ELSE buildLayer(ns, efc, newNodeID, currentNearest, lc,
                    selectNeighborsHeuristic(
                        searchLayer(ns, ns[newNodeID + 1].vector, currentNearest, efc, lc),
                        maxConnAt(lc)))

\* the entry point never raised
raisesEntry_Never(newNodeLevel, maxLvl) == FALSE

\* the entry point raised by every insert
raisesEntry_Always(newNodeLevel, maxLvl) == TRUE

\* the entry point raised by a node as high as the top
raisesEntry_OrEqual(newNodeLevel, maxLvl) == newNodeLevel >= maxLvl

\* whether insert writes entryPoint and maxLevel once its edges are built
raisesEntry(newNodeLevel, maxLvl) == newNodeLevel > maxLvl

\* insert run to completion by a single caller: arena, entryPoint, maxLevel
insert(ns, ep, maxLvl, efc, newNodeID) ==
    LET newNodeLevel == ns[newNodeID + 1].level
        query == ns[newNodeID + 1].vector
    IN  [nodes |-> build(ns, efc, newNodeID,
                         descend(ns, query, ep, maxLvl, newNodeLevel),
                         min(newNodeLevel, maxLvl)),
         entryPoint |-> IF raisesEntry(newNodeLevel, maxLvl) THEN newNodeID ELSE ep,
         maxLevel |-> IF raisesEntry(newNodeLevel, maxLvl) THEN newNodeLevel ELSE maxLvl]

----------------------------------------------------------------------------
(* hnsw.go: Add, Search, Len *)

\* nextNodeID with the index of the last node taken for the next id
nextNodeID_LastIndex(ns) == IF Len(ns) = 0 THEN 0 ELSE Len(ns) - 1

\* "nodeID := len(h.nodes)"
nextNodeID(ns) == Len(ns)

\* what Add returns for its node: the id, no error, and the index as it is left
added(nodeID, r) ==
    [id |-> nodeID, err |-> "nil",
     nodes |-> r.nodes, entryPoint |-> r.entryPoint, maxLevel |-> r.maxLevel]

\* Add from the allocation of the node on, run to completion by a single caller:
\* the node joins the arena; the first node becomes the entry point, any other
\* node is handed to insert
addNode(ns, ep, maxLvl, efc, nodeID, vector, level) ==
    IF ep = -1
    THEN added(nodeID, [nodes |-> Append(ns, NewNode(nodeID, vector, level)),
                        entryPoint |-> nodeID, maxLevel |-> level])
    ELSE added(nodeID, insert(Append(ns, NewNode(nodeID, vector, level)),
                              ep, maxLvl, efc, nodeID))

\* Add with the node put into the arena ahead of the dimension check
Add_CheckAfterAlloc(ns, ep, maxLvl, efc, vector, level) ==
    IF Len(vector) # dimension
    THEN [id |-> -1, err |-> ErrDimensionMismatch,
          nodes |-> Append(ns, NewNode(Len(ns), vector, level)),
          entryPoint |-> ep, maxLevel |-> maxLvl]
    ELSE addNode(ns, ep, maxLvl, efc, Len(ns), vector, level)

\* Add run to completion by a single caller; level is what randomLevel drew
Add(ns, ep, maxLvl, efc, vector, level) ==
    IF Len(vector) # dimension
    THEN [id |-> -1, err |-> ErrDimensionMismatch,
          nodes |-> ns, entryPoint |-> ep, maxLevel |-> maxLvl]
    ELSE addNode(ns, ep, maxLvl, efc, nextNodeID(ns), vector, level)

\* effectiveEf with ef taken as it was given
effectiveEf_AsGiven(ef, k) == ef

\* the pool size Search uses at layer 0
effectiveEf(ef, k) == max(ef, k)

\* the first k of the layer-0 results
firstK(rs, k) == SubSeq(rs, 1, min(k, Len(rs)))

\* what Search returns once its layer-0 search from currentNearest has ended in
\* state s; start and visited are the node the layer-0 search started at and the
\* nodes it computed a distance for
found(s, k, currentNearest) ==
    [err |-> "nil", results |-> firstK(slDrain(s.results), k),
     start |-> currentNearest, visited |-> s.visited]

\* the layer-0 search of Search from the node its descent ended at
searchFrom(ns, query, k, ef, currentNearest) ==
    found(slLoop(ns, query, effectiveEf(ef, k), 0, slInit(ns, query, currentNearest)),
          k, currentNearest)

\* Search with the dimension check ahead of the check for an empty index
Search_DimensionFirst(ns, ep, maxLvl, query, k, ef) ==
    IF Len(query) # dimension
    THEN [err |-> ErrDimensionMismatch, results |-> <<>>, start |-> -1, visited |-> {}]
    ELSE IF ep = -1
    THEN [err |-> ErrEmptyIndex, results |-> <<>>, start |-> -1, visited |-> {}]
    ELSE searchFrom(ns, query, k, ef, descend(ns, query, ep, maxLvl, 0))

\* Search run to completion by a single caller
Search(ns, ep, maxLvl, query, k, ef) ==
    IF ep = -1
    THEN [err |-> ErrEmptyIndex, results |-> <<>>, start |-> -1, visited |-> {}]
    ELSE IF Len(query) # dimension
    THEN [err |-> ErrDimensionMismatch, results |-> <<>>, start |-> -1, visited |-> {}]
    ELSE searchFrom(ns, query, k, ef, descend(ns, query, ep, maxLvl, 0))

\* Len
LenOf(ns) == Len(ns)

----------------------------------------------------------------------------
(* lance/column/writer.go: Writer.  The file is the number of bytes of     *)
(* pages written so far (currentPos); a batch is nil or its rows, whether  *)
(* its schema equals the Writer's, and the first column that fails its     *)
(* validation or its write (failAt, 0: none).                              *)

PageHeaderSize == 30

\* Page.WriteTo's count for an Int32 page without nulls: the header, the null
\* flag, the number of values, the values
pageBytes(numValues) == PageHeaderSize + 1 + 4 + 4 * numValues

NewWriter ==
    [closed |-> FALSE, NumRows |-> 0, Indices |-> <<>>, currentPos |-> 0, NumPages |-> 0,
     fileOpen |-> TRUE]

NilBatch == [nil |-> TRUE]

Batch(schemaEqual, rows, failAt) ==
    [nil |-> FALSE, schemaEqual |-> schemaEqual, rows |-> rows, failAt |-> failAt]

\* PageIndexList.Add
PageIndex(columnIndex, pageNum, offset, size, numValues) ==
    [ColumnIndex |-> columnIndex, PageNum |-> pageNum, Offset |-> offset, Size |-> size,
     NumValues |-> numValues]

\* writeColumn for a column that makes one page: the page written at currentPos
\* and its index added to the footer
writeColumn(wr, columnIndex, numValues) ==
    [wr EXCEPT !.currentPos = @ + pageBytes(numValues),
               !.Indices = Append(@, PageIndex(columnIndex, 0, wr.currentPos,
                                               pageBytes(numValues), numValues))]

\* "for colIdx := 0; colIdx < batch.NumCols(); colIdx++": a column that fails its
\* validation or its write, or is empty, ends the call with an error
RECURSIVE writeColumns(_, _, _)
writeColumns(wr, batch, colIdx) ==
    IF ~(colIdx < NumCols) THEN [w |-> wr, err |-> "nil"]
    ELSE IF batch.failAt = colIdx + 1 \/ batch.rows = 0
    THEN [w |-> wr, err |-> "column failed"]
    ELSE writeColumns(writeColumn(wr, colIdx, batch.rows), batch, colIdx + 1)

\* WriteRecordBatch writing to a closed Writer as to an open one
WriteRecordBatch_NoClosedCheck(wr, batch) ==
    IF batch.nil THEN [w |-> wr, err |-> "batch is nil"]
    ELSE IF ~batch.schemaEqual THEN [w |-> wr, err |-> "schema mismatch"]
    ELSE writeColumns([wr EXCEPT !.NumRows = @ + batch.rows], batch, 0)

WriteRecordBatch(wr, batch) ==
    IF wr.closed THEN [w |-> wr, err |-> "writer is closed"]
    ELSE IF batch.nil THEN [w |-> wr, err |-> "batch is nil"]
    ELSE IF ~batch.schemaEqual THEN [w |-> wr, err |-> "schema mismatch"]
    ELSE writeColumns([wr EXCEPT !.NumRows = @ + batch.rows], batch, 0)

\* Close: closed is set first; fileOK says whether every seek, write and rename
\* that follows succeeds
Close(wr, fileOK) ==
    IF wr.closed THEN [w |-> wr, err |-> "writer already closed"]
    ELSE LET w1 == [wr EXCEPT !.closed = TRUE, !.NumPages = Len(wr.Indices)]
         IN  IF ~fileOK THEN [w |-> w1, err |-> "file"]
             ELSE [w |-> [w1 EXCEPT !.fileOpen = FALSE], err |-> "nil"]

----------------------------------------------------------------------------
(* One caller: every call runs to completion and its result goes back to   *)
(* the caller before the next call starts.                                 *)

NoCall == [op |-> "none"]

\* the record of returned ids once one more Add has returned id
withReturned(rt, id) ==
    [i \in 1..max(Len(rt), id + 1) |->
        (IF i <= Len(rt) THEN rt[i] ELSE 0) + (IF i = id + 1 THEN 1 ELSE 0)]

Idle == [pc |-> "idle"]

Init ==
    /\ nodes = <<>>
    /\ entryPoint = -1
    /\ maxLevel = -1
    /\ efConstruction \in 1..MaxEfConstruction
    /\ globalLock = 0
    /\ nodeLocks = <<>>
    /\ th = [t \in 1..Goroutines |-> Idle]
    /\ ret = NoCall
    /\ panicked = FALSE
    /\ returned = <<>>
    /\ w = NewWriter

Before == [nodes |-> nodes, entryPoint |-> entryPoint, maxLevel |-> maxLevel]

\* the index and the caller once Add has returned r
AddReturns(vector, level, r) ==
    /\ nodes' = r.nodes
    /\ entryPoint' = r.entryPoint
    /\ maxLevel' = r.maxLevel
    /\ nodeLocks' = [i \in 1..Len(r.nodes) |-> 0]
    /\ ret' = [op |-> "Add", vector |-> vector, level |-> level,
               id |-> r.id, err |-> r.err, before |-> Before]
    /\ returned' = IF r.err = "nil" THEN withReturned(returned, r.id) ELSE returned

DoAdd(vector, level, maxNodes) ==
    /\ ret = NoCall
    /\ Len(vector) = dimension => Len(nodes) < maxNodes
    /\ AddReturns(vector, level,
                  Add(nodes, entryPoint, maxLevel, efConstruction, vector, level))
    /\ UNCHANGED <<w, efConstruction, globalLock, th, panicked>>

\* the caller once Search has returned r
SearchReturns(query, k, ef, r) ==
    ret' = [op |-> "Search", query |-> query, k |-> k, ef |-> ef,
            err |-> r.err, results |-> r.results,
            start |-> r.start, visited |-> r.visited]

DoSearch(query, k, ef) ==
    /\ ret = NoCall
    /\ SearchReturns(query, k, ef, Search(nodes, entryPoint, maxLevel, query, k, ef))
    /\ UNCHANGED <<w, nodes, entryPoint, maxLevel, efConstruction, globalLock, nodeLocks, th, panicked, returned>>

DoLen ==
    /\ ret = NoCall
    /\ ret' = [op |-> "Len", n |-> LenOf(nodes)]
    /\ UNCHANGED <<w, nodes, entryPoint, maxLevel, efConstruction, globalLock, nodeLocks, th, panicked, returned>>

Return ==
    /\ ret # NoCall
    /\ ret' = NoCall
    /\ UNCHANGED <<w, nodes, entryPoint, maxLevel, efConstruction, globalLock, nodeLocks, th, panicked, returned>>

Next ==
    \/ \E v \in GoodVectors(MaxComp) \cup BadVectors, l \in Levels : DoAdd(v, l, MaxNodes)
    \/ \E q \in GoodVectors(MaxComp) \cup BadVectors, k \in 1..MaxK, ef \in 0..MaxEf :
          DoSearch(q, k, ef)
    \/ DoLen
    \/ Return

Spec == Init /\ [][Next]_vars

NextDeep ==
    \/ \E v \in GoodVectors(DeepComp) \cup BadVectors, l \in Levels : DoAdd(v, l, DeepNodes)
    \/ \E q \in GoodVectors(DeepComp), k \in 1..DeepNodes, ef \in 0..DeepEf :
          DoSearch(q, k, ef)
    \/ DoLen
    \/ Return

SpecDeep == Init /\ [][NextDeep]_vars

(* One caller of the distance function. *)

\* the vectors of n components
DistVectors(n) == [1..n -> 0..MaxDistComp]

DoL2Distance(a, b) ==
    /\ ret = NoCall
    /\ Len(a) = Len(b)
    /\ ret' = [op |-> "L2Distance", a |-> a, b |-> b, d |-> L2Distance(a, b)]
    /\ UNCHANGED <<w, nodes, entryPoint, maxLevel, efConstruction, globalLock, nodeLocks, th, panicked, returned>>

NextDist ==
    \/ /\ ret = NoCall
       /\ \E n \in 0..MaxDistLen : \E a, b \in DistVectors(n) : DoL2Distance(a, b)
    \/ Return

SpecDist == Init /\ [][NextDist]_vars

----------------------------------------------------------------------------
(* One caller of selectNeighborsHeuristic. *)

\* the candidate lists of n results, in any order
SelCandidates(n) ==
    [1..n -> {SearchResult(id, d) : id \in 0..(MaxSelLen - 1), d \in 0..MaxSelDist}]

DoSelectNeighbors(candidates, m) ==
    /\ ret = NoCall
    /\ ret' = [op |-> "selectNeighborsHeuristic", candidates |-> candidates, m |-> m,
               result |-> selectNeighborsHeuristic(candidates, m)]
    /\ UNCHANGED <<w, nodes, entryPoint, maxLevel, efConstruction, globalLock, nodeLocks, th, panicked, returned>>

NextSelect ==
    \/ /\ ret = NoCall
       /\ \E n \in 0..MaxSelLen : \E candidates \in SelCandidates(n), m \in 1..MaxSelM :
              DoSelectNeighbors(candidates, m)
    \/ Return

SpecSelect == Init /\ [][NextSelect]_vars

----------------------------------------------------------------------------
(* One caller of a column Writer. *)

Batches ==
    {NilBatch} \cup {Batch(e, rows, failAt) :
                        e \in BOOLEAN, rows \in 0..MaxBatchRows, failAt \in 0..NumCols}

DoWriteRecordBatch(batch) ==
    /\ ret = NoCall
    /\ w.closed \/ (Len(w.Indices) + NumCols <= MaxPages /\ w.NumRows + MaxBatchRows <= MaxRows)
    /\ w' = WriteRecordBatch(w, batch).w
    /\ ret' = [op |-> "WriteRecordBatch", batch |-> batch,
               err |-> WriteRecordBatch(w, batch).err, before |-> w]
    /\ UNCHANGED <<nodes, entryPoint, maxLevel, efConstruction, globalLock, nodeLocks, th, panicked, returned>>

DoClose(fileOK) ==
    /\ ret = NoCall
    /\ w' = Close(w, fileOK).w
    /\ ret' = [op |-> "Close", err |-> Close(w, fileOK).err, before |-> w]
    /\ UNCHANGED <<nodes, entryPoint, maxLevel, efConstruction, globalLock, nodeLocks, th, panicked, returned>>

NextWriter ==
    \/ \E batch \in Batches : DoWriteRecordBatch(batch)
    \/ \E fileOK \in BOOLEAN : DoClose(fileOK)
    \/ Return

SpecWriter == Init /\ [][NextWriter]_vars

----------------------------------------------------------------------------
(* Several goroutines.  A step is one access to shared memory (a lock      *)
(* taken, a list read or written, the entry point read or written) with    *)
(* the goroutine's own computation up to its next access; the end of the    *)
(* loop of searchLayer is a step of its own.                               *)

\* a goroutine in searchLayer with its first candidate popped; rlocked is the node
\* whose read lock it holds (-1: none), neighborsCopy its copy of that node's list
atLayer(r, ef, lc, phase, p) ==
    [pc |-> "sl_read", op |-> r.op, vector |-> r.vector, k |-> r.k,
     id |-> r.id, level |-> r.level, maxLvl |-> r.maxLvl,
     phase |-> phase, lc |-> lc, ef |-> ef,
     sef |-> IF r.op = "Search" THEN r.sef ELSE 0,
     s |-> p.s, current |-> p.current.value,
     rlocked |-> -1, neighborsCopy |-> <<>>]

\* a goroutine entering searchLayer: the entry point is pushed and popped again
startLayer(ns, r, ep, ef, lc, phase) ==
    atLayer(r, ef, lc, phase, slPop(slInit(ns, r.vector, ep)))

\* afterSnapshot with the connections built from the node's own level down
afterSnapshot_FromOwnLevel(ns, efc, r, ep, maxLvl) ==
    LET r1 == [r EXCEPT !.maxLvl = maxLvl]
    IN  IF r.op = "Add"
        THEN IF maxLvl > r.level
             THEN startLayer(ns, r1, ep, 1, maxLvl, 1)
             ELSE startLayer(ns, r1, ep, efc, r.level, 2)
        ELSE IF maxLvl > 0
             THEN startLayer(ns, r1, ep, 1, maxLvl, 1)
             ELSE startLayer(ns, r1, ep, effectiveEf(r.sef, r.k), 0, 3)

\* a goroutine that has its snapshot of entryPoint and maxLevel
afterSnapshot(ns, efc, r, ep, maxLvl) ==
    LET r1 == [r EXCEPT !.maxLvl = maxLvl]
    IN  IF r.op = "Add"
        THEN IF maxLvl > r.level
             THEN startLayer(ns, r1, ep, 1, maxLvl, 1)
             ELSE startLayer(ns, r1, ep, efc, min(r.level, maxLvl), 2)
        ELSE IF maxLvl > 0
             THEN startLayer(ns, r1, ep, 1, maxLvl, 1)
             ELSE startLayer(ns, r1, ep, effectiveEf(r.sef, r.k), 0, 3)

\* a goroutine whose searchLayer has returned results
afterLayer(ns, efc, r, results) ==
    IF r.phase = 1
    THEN LET currentNearest == results[1].ID
             stop == IF r.op = "Add" THEN r.level ELSE 0
         IN  IF r.lc - 1 > stop
             THEN startLayer(ns, r, currentNearest, 1, r.lc - 1, 1)
             ELSE IF r.op = "Add"
                  THEN startLayer(ns, r, currentNearest, efc, min(r.level, r.maxLvl), 2)
                  ELSE startLayer(ns, r, currentNearest, effectiveEf(r.sef, r.k), 0, 3)
    ELSE IF r.phase = 2
    THEN [pc |-> "own_read", op |-> r.op, vector |-> r.vector, k |-> r.k,
          id |-> r.id, level |-> r.level, maxLvl |-> r.maxLvl, lc |-> r.lc,
          neighbors |-> selectNeighborsHeuristic(results, maxConnAt(r.lc)), ni |-> 1]
    ELSE [pc |-> "done", op |-> "Search", k |-> r.k, err |-> "nil",
          results |-> firstK(results, r.k)]

\* a goroutine whose loop in searchLayer has ended in state s: by the break at the
\* candidate current (broke) or with no candidate left
layerEnd(r, s, broke, current) ==
    [pc |-> "sl_done", op |-> r.op, vector |-> r.vector, k |-> r.k,
     id |-> r.id, level |-> r.level, maxLvl |-> r.maxLvl,
     phase |-> r.phase, lc |-> r.lc, ef |-> r.ef, sef |-> r.sef,
     s |-> s, current |-> current, broke |-> broke]

\* a goroutine in searchLayer that has popped its next candidate
afterPop(r, p) ==
    IF p.stop THEN layerEnd(r, p.s, TRUE, p.current.value)
    ELSE [r EXCEPT !.s = p.s, !.current = p.current.value]

\* a goroutine in searchLayer that has visited the neighbours it read
afterExpand(r, s1) ==
    IF s1.panic THEN [pc |-> "panic", op |-> r.op]
    ELSE IF Len(s1.candidates) = 0 THEN layerEnd(r, s1, FALSE, r.current)
    ELSE afterPop(r, slPop(s1))

\* a goroutine in searchLayer that has read neighborsCopy from its current node
afterRead(ns, r, neighborsCopy) ==
    afterExpand(r, slExpand(ns, r.vector, r.ef, r.s, neighborsCopy))

\* afterLink with the entry point raised as soon as the top layer is linked
afterLink_RaiseFirst(ns, efc, r) ==
    IF r.ni < Len(r.neighbors)
    THEN [pc |-> "own_read", op |-> r.op, vector |-> r.vector, k |-> r.k,
          id |-> r.id, level |-> r.level, maxLvl |-> r.maxLvl, lc |-> r.lc,
          neighbors |-> r.neighbors, ni |-> r.ni + 1]
    ELSE IF raisesEntry(r.level, r.maxLvl)
    THEN [pc |-> "ep_lock", op |-> r.op, id |-> r.id, level |-> r.level,
          maxLvl |-> r.maxLvl]
    ELSE IF r.lc - 1 >= 0
    THEN startLayer(ns, r, r.neighbors[1].ID, efc, r.lc - 1, 2)
    ELSE [pc |-> "done", op |-> "Add", id |-> r.id, err |-> "nil"]

\* a goroutine in insert that has released the lock of its neighbour number r.ni
afterLink(ns, efc, r) ==
    IF r.ni < Len(r.neighbors)
    THEN [pc |-> "own_read", op |-> r.op, vector |-> r.vector, k |-> r.k,
          id |-> r.id, level |-> r.level, maxLvl |-> r.maxLvl, lc |-> r.lc,
          neighbors |-> r.neighbors, ni |-> r.ni + 1]
    ELSE IF r.lc - 1 >= 0
    THEN startLayer(ns, r, r.neighbors[1].ID, efc, r.lc - 1, 2)
    ELSE IF raisesEntry(r.level, r.maxLvl)
    THEN [pc |-> "ep_lock", op |-> r.op, id |-> r.id, level |-> r.level,
          maxLvl |-> r.maxLvl]
    ELSE [pc |-> "done", op |-> "Add", id |-> r.id, err |-> "nil"]

Running == ~panicked

\* the goroutines that hold the global read lock
GlobalReaders == {u \in 1..Goroutines : th[u].pc = "ins_rlocked"}

\* Add up to globalLock.Lock(): the dimension check, randomLevel, the lock taken
CallAdd(t, vector, level, maxNodes) ==
    /\ Running
    /\ th[t].pc = "idle"
    /\ IF Len(vector) # dimension
       THEN /\ th' = [th EXCEPT ![t] = [pc |-> "done", op |-> "Add", id |-> -1,
                                        err |-> ErrDimensionMismatch]]
            /\ UNCHANGED globalLock
       ELSE /\ Len(nodes) < maxNodes
            /\ globalLock = 0
            /\ GlobalReaders = {}
            /\ globalLock' = t
            /\ th' = [th EXCEPT ![t] = [pc |-> "add_alloc", op |-> "Add",
                                        vector |-> vector, level |-> level]]
    /\ UNCHANGED <<w, nodes, entryPoint, maxLevel, efConstruction, nodeLocks, ret, panicked, returned>>

\* Add under the global lock: the node joins the arena with a lock of its own; the
\* first node becomes the entry point; the lock is released
AddAlloc(t) ==
    /\ Running
    /\ th[t].pc = "add_alloc"
    /\ LET nodeID == nextNodeID(nodes)
       IN  /\ nodes' = Append(nodes, NewNode(nodeID, th[t].vector, th[t].level))
           /\ nodeLocks' = Append(nodeLocks, 0)
           /\ IF entryPoint = -1
              THEN /\ entryPoint' = nodeID
                   /\ maxLevel' = th[t].level
                   /\ th' = [th EXCEPT ![t] = [pc |-> "done", op |-> "Add", id |-> nodeID,
                                               err |-> "nil"]]
              ELSE /\ UNCHANGED <<entryPoint, maxLevel>>
                   /\ th' = [th EXCEPT ![t] = [pc |-> "ins_snapshot", op |-> "Add", k |-> 0,
                                               vector |-> th[t].vector, level |-> th[t].level,
                                               id |-> nodeID, maxLvl |-> -1]]
    /\ globalLock' = 0
    /\ UNCHANGED <<w, efConstruction, ret, panicked, returned>>

\* insert: entryPoint and maxLevel read under the global read lock
InsertSnapshot(t) ==
    /\ Running
    /\ th[t].pc = "ins_snapshot"
    /\ globalLock = 0
    /\ th' = [th EXCEPT ![t] = afterSnapshot(nodes, efConstruction, th[t], entryPoint, maxLevel)]
    /\ UNCHANGED <<w, nodes, entryPoint, maxLevel, efConstruction, globalLock, nodeLocks, ret,
                   panicked, returned>>

(* insert's snapshot step by step: globalLock.RLock(), then the two reads   *)
(* and RUnlock().                                                          *)

\* insert: globalLock.RLock()
InsertRLock(t) ==
    /\ Running
    /\ th[t].pc = "ins_snapshot"
    /\ globalLock = 0
    /\ th' = [th EXCEPT ![t].pc = "ins_rlocked"]
    /\ UNCHANGED <<w, nodes, entryPoint, maxLevel, efConstruction, globalLock, nodeLocks, ret,
                   panicked, returned>>

\* insert: ep and maxLvl read, globalLock.RUnlock(), and the first searchLayer
\* entered
InsertRead(t) ==
    /\ Running
    /\ th[t].pc = "ins_rlocked"
    /\ th' = [th EXCEPT ![t] = afterSnapshot(nodes, efConstruction, th[t], entryPoint, maxLevel)]
    /\ UNCHANGED <<w, nodes, entryPoint, maxLevel, efConstruction, globalLock, nodeLocks, ret,
                   panicked, returned>>

(* searchLayer's read of a list step by step: RLock, the copy and RUnlock,  *)
(* then the loop over the copy.                                            *)

\* the goroutines that hold the read lock of node id
ReadersOf(id) ==
    {u \in 1..Goroutines : th[u].pc \in {"sl_locked", "sl_copied"} /\ th[u].rlocked = id}

\* a goroutine that has taken the read lock of its current node
rlockedOn(r) == [r EXCEPT !.pc = "sl_locked", !.rlocked = r.current]

\* the read lock kept after the copy
copied_LockKept(r, connections) ==
    [r EXCEPT !.pc = "sl_copied", !.neighborsCopy = connections]

\* a goroutine that has copied the list and released the read lock
copied(r, connections) ==
    [r EXCEPT !.pc = "sl_copied", !.neighborsCopy = connections, !.rlocked = -1]

\* a goroutine back at the head of the loop with its copy consumed
expanded(ns, r) ==
    afterRead(ns, [r EXCEPT !.pc = "sl_read", !.neighborsCopy = <<>>], r.neighborsCopy)

\* searchLayer: nodeLocks[current.value].RLock()
LayerRLock(t) ==
    /\ Running
    /\ th[t].pc = "sl_read"
    /\ nodeLocks[th[t].current + 1] = 0
    /\ th' = [th EXCEPT ![t] = rlockedOn(th[t])]
    /\ UNCHANGED <<w, nodes, entryPoint, maxLevel, efConstruction, globalLock, nodeLocks, ret,
                   panicked, returned>>

\* searchLayer: the list copied into neighborsCopy, then RUnlock()
LayerCopy(t) ==
    /\ Running
    /\ th[t].pc = "sl_locked"
    /\ th' = [th EXCEPT ![t] = copied(th[t], GetConnections(nodes[th[t].current + 1],
                                                            th[t].lc))]
    /\ UNCHANGED <<w, nodes, entryPoint, maxLevel, efConstruction, globalLock, nodeLocks, ret,
                   panicked, returned>>

\* the copy made while another goroutine appends to the list without the lock:
\* as in TornRead, the list with a slot behind it that holds any value
TornCopy(t) ==
    /\ Running
    /\ th[t].pc = "sl_locked"
    /\ \E u \in 1..Goroutines :
          /\ u # t
          /\ th[u].pc = "own_write"
          /\ th[u].id = th[t].current
          /\ th[u].lc = th[t].lc
    /\ \E g \in 0..Len(nodes) :
          th' = [th EXCEPT ![t] =
                    copied(th[t], Append(GetConnections(nodes[th[t].current + 1], th[t].lc),
                                         g))]
    /\ UNCHANGED <<w, nodes, entryPoint, maxLevel, efConstruction, globalLock, nodeLocks, ret,
                   panicked, returned>>

\* searchLayer: the loop over neighborsCopy, the distances computed, and the next
\* candidate popped
LayerExpand(t) ==
    /\ Running
    /\ th[t].pc = "sl_copied"
    /\ th' = [th EXCEPT ![t] = expanded(nodes, th[t])]
    /\ panicked' = (th'[t].pc = "panic")
    /\ UNCHANGED <<w, nodes, entryPoint, maxLevel, efConstruction, globalLock, nodeLocks, ret,
                   returned>>

\* Search up to its layer searches: the checks, entryPoint and maxLevel read under
\* the global read lock
CallSearch(t, query, k, ef) ==
    /\ Running
    /\ th[t].pc = "idle"
    /\ globalLock = 0
    /\ th' = [th EXCEPT ![t] =
                 IF entryPoint = -1
                 THEN [pc |-> "done", op |-> "Search", id |-> -1, err |-> ErrEmptyIndex]
                 ELSE IF Len(query) # dimension
                 THEN [pc |-> "done", op |-> "Search", id |-> -1,
                       err |-> ErrDimensionMismatch]
                 ELSE afterSnapshot(nodes, efConstruction,
                                    [op |-> "Search", vector |-> query, k |-> k, sef |-> ef,
                                     id |-> -1, level |-> 0, maxLvl |-> maxLevel],
                                    entryPoint, maxLevel)]
    /\ UNCHANGED <<w, nodes, entryPoint, maxLevel, efConstruction, globalLock, nodeLocks, ret,
                   panicked, returned>>


\* searchLayer: the current node's list copied under its read lock, then the
\* neighbours visited
LayerRead(t) ==
    /\ Running
    /\ th[t].pc = "sl_read"
    /\ nodeLocks[th[t].current + 1] = 0
    /\ th' = [th EXCEPT ![t] = afterRead(nodes, th[t],
                                         GetConnections(nodes[th[t].current + 1], th[t].lc))]
    /\ UNCHANGED <<w, nodes, entryPoint, maxLevel, efConstruction, globalLock, nodeLocks, ret,
                   panicked, returned>>

\* searchLayer copying, under the read lock, a list that another goroutine is
\* appending to without the lock (newNode.AddConnection between its read and its
\* write of the slice): besides the list before or after the append, which
\* LayerRead gives, the copy may be torn, the list with a slot behind it that holds
\* any value; the value Len(nodes) stands for every id that is out of range
TornRead(t) ==
    /\ Running
    /\ th[t].pc = "sl_read"
    /\ nodeLocks[th[t].current + 1] = 0
    /\ \E u \in 1..Goroutines :
          /\ u # t
          /\ th[u].pc = "own_write"
          /\ th[u].id = th[t].current
          /\ th[u].lc = th[t].lc
    /\ \E g \in 0..Len(nodes) :
          th' = [th EXCEPT ![t] =
                    afterRead(nodes, th[t],
                              Append(GetConnections(nodes[th[t].current + 1], th[t].lc), g))]
    /\ panicked' = (th'[t].pc = "panic")
    /\ UNCHANGED <<w, nodes, entryPoint, maxLevel, efConstruction, globalLock, nodeLocks, ret,
                   returned>>

\* searchLayer after its loop: the results drained into the array it returns, and
\* the caller's use of them
LayerDone(t) ==
    /\ Running
    /\ th[t].pc = "sl_done"
    /\ th' = [th EXCEPT ![t] = afterLayer(nodes, efConstruction, th[t],
                                          slDrain(th[t].s.results))]
    /\ UNCHANGED <<w, nodes, entryPoint, maxLevel, efConstruction, globalLock, nodeLocks, ret,
                   panicked, returned>>

\* newNode.AddConnection, no lock taken: append reads the list ...
OwnRead(t) ==
    /\ Running
    /\ th[t].pc = "own_read"
    /\ th' = [th EXCEPT ![t] = [pc |-> "own_write", op |-> "Add", vector |-> th[t].vector,
                                k |-> 0, id |-> th[t].id, level |-> th[t].level,
                                maxLvl |-> th[t].maxLvl, lc |-> th[t].lc,
                                neighbors |-> th[t].neighbors, ni |-> th[t].ni,
                                conns |-> GetConnections(nodes[th[t].id + 1], th[t].lc)]]
    /\ UNCHANGED <<w, nodes, entryPoint, maxLevel, efConstruction, globalLock, nodeLocks, ret,
                   panicked, returned>>

\* ... and writes it back one longer
OwnWrite(t) ==
    /\ Running
    /\ th[t].pc = "own_write"
    /\ nodes' = linkOwnFrom(nodes, th[t].id, th[t].lc, th[t].neighbors[th[t].ni].ID, th[t].conns)
    /\ th' = [th EXCEPT ![t] = [pc |-> "nb_lock", op |-> "Add", vector |-> th[t].vector,
                                k |-> 0, id |-> th[t].id, level |-> th[t].level,
                                maxLvl |-> th[t].maxLvl, lc |-> th[t].lc,
                                neighbors |-> th[t].neighbors, ni |-> th[t].ni]]
    /\ UNCHANGED <<w, entryPoint, maxLevel, efConstruction, globalLock, nodeLocks, ret,
                   panicked, returned>>

\* nodeLocks[neighbor.ID].Lock(), and the neighbour's list read under it
NeighborLock(t) ==
    /\ Running
    /\ th[t].pc = "nb_lock"
    /\ LET nb == th[t].neighbors[th[t].ni].ID
       IN  /\ nodeLocks[nb + 1] = 0
           /\ ReadersOf(nb) = {}
           /\ nodeLocks' = [nodeLocks EXCEPT ![nb + 1] = t]
           /\ th' = [th EXCEPT ![t] = [pc |-> "nb_link", op |-> "Add", vector |-> th[t].vector,
                                       k |-> 0, id |-> th[t].id, level |-> th[t].level,
                                       maxLvl |-> th[t].maxLvl, lc |-> th[t].lc,
                                       neighbors |-> th[t].neighbors, ni |-> th[t].ni,
                                       conns |-> GetConnections(nodes[nb + 1], th[t].lc)]]
    /\ UNCHANGED <<w, nodes, entryPoint, maxLevel, efConstruction, globalLock, ret, panicked, returned>>

\* the neighbour's lock kept after its list is stored
Linked_LockKept(t, nb, ns1) ==
    /\ nodes' = ns1
    /\ nodeLocks' = nodeLocks
    /\ th' = [th EXCEPT ![t] = afterLink(ns1, efConstruction, th[t])]

\* the arena ns1 with the neighbour's new list stored, its lock released
Linked(t, nb, ns1) ==
    /\ nodes' = ns1
    /\ nodeLocks' = [nodeLocks EXCEPT ![nb + 1] = 0]
    /\ th' = [th EXCEPT ![t] = afterLink(ns1, efConstruction, th[t])]

\* the reciprocal edge written, the list trimmed, the neighbour's lock released
NeighborLink(t) ==
    /\ Running
    /\ th[t].pc = "nb_link"
    /\ Linked(t, th[t].neighbors[th[t].ni].ID,
              linkBackFrom(nodes, th[t].id, th[t].lc, th[t].neighbors[th[t].ni].ID,
                           th[t].conns))
    /\ UNCHANGED <<w, entryPoint, maxLevel, efConstruction, globalLock, ret, panicked, returned>>

\* the reciprocal edge written and the list trimmed, the neighbour's lock still held
NeighborWrite(t) ==
    /\ Running
    /\ th[t].pc = "nb_link"
    /\ nodes' = linkBackFrom(nodes, th[t].id, th[t].lc, th[t].neighbors[th[t].ni].ID,
                             th[t].conns)
    /\ th' = [th EXCEPT ![t].pc = "nb_unlock"]
    /\ UNCHANGED <<w, entryPoint, maxLevel, efConstruction, globalLock, nodeLocks, ret, panicked,
                   returned>>

\* nodeLocks[neighbor.ID].Unlock()
NeighborUnlock(t) ==
    /\ Running
    /\ th[t].pc = "nb_unlock"
    /\ Linked(t, th[t].neighbors[th[t].ni].ID, nodes)
    /\ UNCHANGED <<w, entryPoint, maxLevel, efConstruction, globalLock, ret, panicked, returned>>

\* globalLock.Lock() before the entry point is raised
EntryLock(t) ==
    /\ Running
    /\ th[t].pc = "ep_lock"
    /\ globalLock = 0
    /\ GlobalReaders = {}
    /\ globalLock' = t
    /\ th' = [th EXCEPT ![t].pc = "ep_write"]
    /\ UNCHANGED <<w, nodes, entryPoint, maxLevel, efConstruction, nodeLocks, ret, panicked, returned>>

\* EntryWrite with maxLevel left as it was
EntryWrite_PointOnly(t) ==
    /\ Running
    /\ th[t].pc = "ep_write"
    /\ entryPoint' = th[t].id
    /\ maxLevel' = maxLevel
    /\ globalLock' = 0
    /\ th' = [th EXCEPT ![t] = [pc |-> "done", op |-> "Add", id |-> th[t].id, err |-> "nil"]]
    /\ UNCHANGED <<w, nodes, efConstruction, nodeLocks, ret, panicked, returned>>

\* entryPoint and maxLevel written, the global lock released
EntryWrite(t) ==
    /\ Running
    /\ th[t].pc = "ep_write"
    /\ entryPoint' = th[t].id
    /\ maxLevel' = th[t].level
    /\ globalLock' = 0
    /\ th' = [th EXCEPT ![t] = [pc |-> "done", op |-> "Add", id |-> th[t].id, err |-> "nil"]]
    /\ UNCHANGED <<w, nodes, efConstruction, nodeLocks, ret, panicked, returned>>

\* the call returns to its caller
Finish(t) ==
    /\ Running
    /\ th[t].pc = "done"
    /\ th' = [th EXCEPT ![t] = Idle]
    /\ returned' = IF th[t].op = "Add" /\ th[t].err = "nil"
                   THEN withReturned(returned, th[t].id) ELSE returned
    /\ UNCHANGED <<w, nodes, entryPoint, maxLevel, efConstruction, globalLock, nodeLocks, ret, panicked>>

NextConc ==
    \E t \in 1..Goroutines :
        \/ \E v \in GoodVectors(ConcComp) \cup BadVectors, l \in 0..ConcLevel :
              CallAdd(t, v, l, ConcNodes)
        \/ AddAlloc(t)
        \/ InsertSnapshot(t)
        \/ LayerRead(t)
        \/ TornRead(t)
        \/ LayerDone(t)
        \/ OwnRead(t)
        \/ OwnWrite(t)
        \/ NeighborLock(t)
        \/ NeighborLink(t)
        \/ EntryLock(t)
        \/ EntryWrite(t)
        \/ Finish(t)

SpecConc == Init /\ [][NextConc]_vars

(* Goroutines calling Add and Search on one index, with every lock          *)
(* operation of searchLayer a step of its own.                             *)

\* what a goroutine does between its call and its return
Step(t) ==
    \/ AddAlloc(t)
    \/ InsertRLock(t)
    \/ InsertRead(t)
    \/ LayerRLock(t)
    \/ LayerCopy(t)
    \/ TornCopy(t)
    \/ LayerExpand(t)
    \/ LayerDone(t)
    \/ OwnRead(t)
    \/ OwnWrite(t)
    \/ NeighborLock(t)
    \/ NeighborWrite(t)
    \/ NeighborUnlock(t)
    \/ EntryLock(t)
    \/ EntryWrite(t)
    \/ Finish(t)

NextFine ==
    \E t \in 1..Goroutines :
        \/ \E v \in GoodVectors(FineComp), l \in 0..FineLevel : CallAdd(t, v, l, FineNodes)
        \/ \E q \in GoodVectors(FineComp) \cup BadVectors, k \in 1..FineK, ef \in 0..FineEf :
              CallSearch(t, q, k, ef)
        \/ Step(t)

SpecFine == Init /\ [][NextFine]_vars

(* Several goroutines adding to an index that two Add calls of a single    *)
(* caller have built.                                                      *)

Empty == [nodes |-> <<>>, entryPoint |-> -1, maxLevel |-> -1]

\* Add called on the index r
AddTo(r, efc, vector, level) == Add(r.nodes, r.entryPoint, r.maxLevel, efc, vector, level)

\* the index b with no call in progress
BuiltBy(b) ==
    /\ nodes = b.nodes
    /\ entryPoint = b.entryPoint
    /\ maxLevel = b.maxLevel
    /\ efConstruction = MaxEfConstruction
    /\ globalLock = 0
    /\ nodeLocks = [i \in 1..Len(b.nodes) |-> 0]
    /\ th = [t \in 1..Goroutines |-> Idle]
    /\ ret = NoCall
    /\ panicked = FALSE
    /\ returned = [i \in 1..Len(b.nodes) |-> 1]
    /\ w = NewWriter

InitCrowd ==
    \E v1 \in GoodVectors(ConcComp), l1 \in Levels,
       v2 \in GoodVectors(ConcComp), l2 \in Levels :
        BuiltBy(AddTo(AddTo(Empty, MaxEfConstruction, v1, l1), MaxEfConstruction, v2, l2))

NextCrowd ==
    \E t \in 1..Goroutines :
        \/ \E v \in GoodVectors(ConcComp) \cup BadVectors, l \in Levels :
              CallAdd(t, v, l, CrowdNodes)
        \/ AddAlloc(t)
        \/ InsertSnapshot(t)
        \/ LayerRead(t)
        \/ TornRead(t)
        \/ LayerDone(t)
        \/ OwnRead(t)
        \/ OwnWrite(t)
        \/ NeighborLock(t)
        \/ NeighborLink(t)
        \/ EntryLock(t)
        \/ EntryWrite(t)
        \/ Finish(t)

SpecCrowd == InitCrowd /\ [][NextCrowd]_vars

(* The same goroutines and index, with the write of a neighbour's list and *)
(* the release of its lock as two steps.                                   *)

NextLink ==
    \E t \in 1..Goroutines :
        \/ \E v \in GoodVectors(ConcComp) \cup BadVectors, l \in Levels :
              CallAdd(t, v, l, CrowdNodes)
        \/ AddAlloc(t)
        \/ InsertSnapshot(t)
        \/ LayerRead(t)
        \/ TornRead(t)
        \/ LayerDone(t)
        \/ OwnRead(t)
        \/ OwnWrite(t)
        \/ NeighborLock(t)
        \/ NeighborWrite(t)
        \/ NeighborUnlock(t)
        \/ EntryLock(t)
        \/ EntryWrite(t)
        \/ Finish(t)

SpecLink == InitCrowd /\ [][NextLink]_vars

(* The same goroutines and index, with the torn read on the other side of   *)
(* the race: the neighbour's AddConnection, under the neighbour's lock,     *)
(* reading the list the neighbour itself is appending to without the lock. *)

\* a list holds an id that is not in the arena ns
holdsStray(ns, conns) == \E i \in 1..Len(conns) : conns[i] < 0 \/ conns[i] >= Len(ns)

\* the trim of conns with newNodeID behind it indexes h.nodes with every id of it
trimPanics(ns, lc, conns) ==
    Len(conns) + 1 > maxConnAt(lc) /\ holdsStray(ns, conns)

\* nodeLocks[neighbor.ID].Lock() and the neighbour's list read while the neighbour
\* is inside its own unlocked append to it: as in TornRead, the list with a slot
\* behind it that holds any value, Len(nodes) standing for every id out of range
TornLock(t) ==
    /\ Running
    /\ th[t].pc = "nb_lock"
    /\ nodeLocks[th[t].neighbors[th[t].ni].ID + 1] = 0
    /\ ReadersOf(th[t].neighbors[th[t].ni].ID) = {}
    /\ \E u \in 1..Goroutines :
          /\ u # t
          /\ th[u].pc = "own_write"
          /\ th[u].id = th[t].neighbors[th[t].ni].ID
          /\ th[u].lc = th[t].lc
    /\ nodeLocks' = [nodeLocks EXCEPT ![th[t].neighbors[th[t].ni].ID + 1] = t]
    /\ \E g \in 0..Len(nodes) :
          th' = [th EXCEPT ![t] =
                    [pc |-> "nb_link", op |-> "Add", vector |-> th[t].vector,
                     k |-> 0, id |-> th[t].id, level |-> th[t].level,
                     maxLvl |-> th[t].maxLvl, lc |-> th[t].lc,
                     neighbors |-> th[t].neighbors, ni |-> th[t].ni,
                     conns |-> Append(GetConnections(nodes[th[t].neighbors[th[t].ni].ID + 1],
                                                     th[t].lc), g)]]
    /\ UNCHANGED <<w, nodes, entryPoint, maxLevel, efConstruction, globalLock, ret, panicked, returned>>

\* the reciprocal edge written and the list trimmed; h.nodes[connID] of the trim
\* panics on an id that is out of range
LinkOrPanic(t) ==
    /\ Running
    /\ th[t].pc = "nb_link"
    /\ IF trimPanics(nodes, th[t].lc, th[t].conns)
       THEN /\ th' = [th EXCEPT ![t] = [pc |-> "panic", op |-> "Add"]]
            /\ panicked' = TRUE
            /\ UNCHANGED <<w, nodes, nodeLocks, entryPoint, maxLevel, efConstruction, globalLock,
                           ret, returned>>
       ELSE NeighborLink(t)

NextTorn ==
    \E t \in 1..Goroutines :
        \/ \E v \in GoodVectors(ConcComp) \cup BadVectors, l \in Levels :
              CallAdd(t, v, l, CrowdNodes)
        \/ AddAlloc(t)
        \/ InsertSnapshot(t)
        \/ LayerRead(t)
        \/ TornRead(t)
        \/ LayerDone(t)
        \/ OwnRead(t)
        \/ OwnWrite(t)
        \/ NeighborLock(t)
        \/ TornLock(t)
        \/ LinkOrPanic(t)
        \/ EntryLock(t)
        \/ EntryWrite(t)
        \/ Finish(t)

SpecTorn == InitCrowd /\ [][NextTorn]_vars

(* Several goroutines adding to an index of two nodes of one level, with   *)
(* room for three more nodes.                                              *)

InitPrune ==
    \E v1 \in GoodVectors(PruneComp), v2 \in GoodVectors(PruneComp), l \in Levels :
        BuiltBy(AddTo(AddTo(Empty, MaxEfConstruction, v1, l), MaxEfConstruction, v2, l))

NextPrune ==
    \E t \in 1..Goroutines :
        \/ \E v \in GoodVectors(ConcComp), l \in 0..PruneLevel : CallAdd(t, v, l, PruneNodes)
        \/ AddAlloc(t)
        \/ InsertSnapshot(t)
        \/ LayerRead(t)
        \/ TornRead(t)
        \/ LayerDone(t)
        \/ OwnRead(t)
        \/ OwnWrite(t)
        \/ NeighborLock(t)
        \/ NeighborLink(t)
        \/ EntryLock(t)
        \/ EntryWrite(t)
        \/ Finish(t)

SpecPrune == InitPrune /\ [][NextPrune]_vars

(* Several goroutines adding to an index that three Add calls of a single  *)
(* caller have built.                                                      *)

InitTrio ==
    \E v1 \in GoodVectors(TrioComp), l1 \in Levels,
       v2 \in GoodVectors(TrioComp), l2 \in Levels,
       v3 \in GoodVectors(TrioComp), l3 \in Levels :
        BuiltBy(AddTo(AddTo(AddTo(Empty, MaxEfConstruction, v1, l1),
                            MaxEfConstruction, v2, l2),
                      MaxEfConstruction, v3, l3))

NextTrio ==
    \E t \in 1..Goroutines :
        \/ \E v \in GoodVectors(TrioComp) \cup BadVectors, l \in Levels :
              CallAdd(t, v, l, TrioNodes)
        \/ AddAlloc(t)
        \/ InsertSnapshot(t)
        \/ LayerRead(t)
        \/ TornRead(t)
        \/ LayerDone(t)
        \/ OwnRead(t)
        \/ OwnWrite(t)
        \/ NeighborLock(t)
        \/ NeighborLink(t)
        \/ EntryLock(t)
        \/ EntryWrite(t)
        \/ Finish(t)

SpecTrio == InitTrio /\ [][NextTrio]_vars

----------------------------------------------------------------------------
(* Properties *)

\* no call is in progress
Quiescent == \A t \in 1..Goroutines : th[t].pc \in {"idle", "done"}

NodeIDs == 0..(Len(nodes) - 1)

LayersOf(i) == 0..(Len(nodes[i + 1].connections) - 1)

MaxNodeLevel == CHOOSE l \in {nodes[i + 1].level : i \in NodeIDs} :
                    \A i \in NodeIDs : nodes[i + 1].level <= l

RECURSIVE SumSeq(_)
SumSeq(q) == IF q = <<>> THEN 0 ELSE Head(q) + SumSeq(Tail(q))

Elems(q) == {q[i] : i \in 1..Len(q)}

\* the goroutines that are inside insert for a node of their own
Inserting == {t \in 1..Goroutines :
                 th[t].pc \in {"ins_snapshot", "sl_read", "sl_done", "own_read", "own_write",
                               "nb_lock", "nb_link", "ep_lock", "ep_write"}}

\* node i can be reached by a goroutine other than t: it is the entry point, or it
\* is in the connection list of another node, or another goroutine's search is at it
VisibleToOthers(t, i) ==
    \/ entryPoint = i
    \/ \E j \in NodeIDs \ {i} : \E l \in LayersOf(j) : i \in Elems(GetConnections(nodes[j + 1], l))
    \/ \E u \in 1..Goroutines \ {t} : th[u].pc = "sl_read" /\ th[u].current = i

\* C1: once no Add is in progress, every node has at most Mmax0 connections at
\* layer 0 and at most Mmax at every layer above
C1_DegreeBound ==
    Quiescent =>
        \A i \in NodeIDs : \A l \in LayersOf(i) :
            ConnectionCount(nodes[i + 1], l) <= maxConnAt(l)

\* C2: once no Add is in progress, entryPoint is a node of the highest level
\* among the nodes and maxLevel is that level
C2_EntryPointIsTop ==
    (Quiescent /\ Len(nodes) > 0) =>
        /\ entryPoint \in NodeIDs
        /\ nodes[entryPoint + 1].level = MaxNodeLevel
        /\ maxLevel = MaxNodeLevel

\* C3: a goroutine appends to its new node's list without the node's lock only
\* while no other goroutine can reach the new node
C3_UnlockedAppendUnseen ==
    \A t \in 1..Goroutines :
        th[t].pc = "own_write" => ~VisibleToOthers(t, th[t].id)

\* C4: no Add panics, and once the goroutines have completed their Add calls Len()
\* is the number of Add calls that succeeded
C4_LenCountsAdds ==
    /\ ~panicked
    /\ (\A t \in 1..Goroutines : th[t].pc = "idle") => LenOf(nodes) = SumSeq(returned)

\* C5: the id an Add returns is the number of nodes in the arena when its node was
\* allocated: node i of the arena has id i, no two Add calls hold or return the
\* same id, and no id is returned twice
C5_SequentialIDs ==
    /\ \A i \in NodeIDs : nodes[i + 1].id = i
    /\ \A i \in 1..Len(returned) : returned[i] <= 1
    /\ \A t \in 1..Goroutines :
          (th[t].pc = "done" /\ th[t].op = "Add" /\ th[t].err = "nil") =>
              /\ th[t].id \in NodeIDs
              /\ th[t].id + 1 <= Len(returned) => returned[th[t].id + 1] = 0
    /\ \A t, u \in Inserting : t # u => th[t].id # th[u].id

\* C5 witness: two goroutines are inside Add at once, each with its own id
C5_Witness ==
    \E t, u \in Inserting : t # u /\ th[t].id # th[u].id /\ Len(nodes) = ConcNodes

\* C6: Add with a vector of the wrong length returns DimensionMismatch and leaves
\* the arena, every connection list, entryPoint and maxLevel (hence Len()) as
\* they were
C6_BadDimensionChangesNothing ==
    (ret.op = "Add" /\ Len(ret.vector) # dimension) =>
        /\ ret.err = ErrDimensionMismatch
        /\ ret.id = -1
        /\ nodes = ret.before.nodes
        /\ entryPoint = ret.before.entryPoint
        /\ maxLevel = ret.before.maxLevel
        /\ LenOf(nodes) = LenOf(ret.before.nodes)

\* C6 witness: such an Add has returned on an index that holds nodes
C6_Witness ==
    ret.op = "Add" /\ Len(ret.vector) # dimension /\ Len(nodes) >= 2

\* C7: Search on an index without nodes returns EmptyIndex whatever the query, k
\* and ef, and visits nothing
C7_EmptyIndex ==
    (ret.op = "Search" /\ LenOf(nodes) = 0) =>
        /\ ret.err = ErrEmptyIndex
        /\ ret.results = <<>>
        /\ ret.visited = {}

\* C7 witness: Search with ef = 0 and a query of the wrong length on the empty index
C7_Witness ==
    ret.op = "Search" /\ LenOf(nodes) = 0 /\ ret.ef = 0 /\ Len(ret.query) # dimension

\* the nodes reached from the nodes of set along layer-0 connection lists
RECURSIVE Reach0(_)
Reach0(set) ==
    LET more == set \cup UNION {Elems(GetConnections(nodes[i + 1], 0)) : i \in set}
    IN  IF more = set THEN set ELSE Reach0(more)

\* C8 as claimed: Search on a non-empty index returns exactly min(k, Len()) results
C8_ExactlyMinKLen ==
    (ret.op = "Search" /\ ret.err = "nil") =>
        Len(ret.results) = min(ret.k, LenOf(nodes))

\* C8 as amended: Search on a non-empty index returns exactly min(k, R) results,
\* R the number of nodes reached along layer-0 lists from the node its layer-0
\* search starts at; that is at least 1 and at most min(k, Len())
C8_MinKReachable ==
    (ret.op = "Search" /\ ret.err = "nil") =>
        /\ Len(ret.results) = min(ret.k, Cardinality(Reach0({ret.start})))
        /\ Len(ret.results) >= 1
        /\ Len(ret.results) <= min(ret.k, LenOf(nodes))

\* C8 witness: a Search that returned fewer than min(k, Len()) results
C8_Witness ==
    ret.op = "Search" /\ ret.err = "nil" /\ Len(ret.results) < min(ret.k, LenOf(nodes))

DistinctVectors == \A i, j \in NodeIDs : i # j => nodes[i + 1].vector # nodes[j + 1].vector

\* C9 as claimed: with pairwise distinct vectors, Search for the vector of node i
\* returns i first, at distance 0
C9_SelfFirst ==
    (ret.op = "Search" /\ ret.err = "nil" /\ DistinctVectors) =>
        \A i \in NodeIDs :
            nodes[i + 1].vector = ret.query =>
                ret.results[1] = SearchResult(i, 0)

\* C9 as amended: with pairwise distinct vectors, Search for the vector of node i
\* returns i first, at distance 0, whenever its layer-0 search visits node i
C9_SelfFirstWhenVisited ==
    (ret.op = "Search" /\ ret.err = "nil" /\ DistinctVectors) =>
        \A i \in NodeIDs :
            (nodes[i + 1].vector = ret.query /\ i \in ret.visited) =>
                ret.results[1] = SearchResult(i, 0)

\* C9 witness: the layer-0 search started elsewhere, visited node i and returned it
\* first among several results
C9_Witness ==
    /\ ret.op = "Search" /\ ret.err = "nil" /\ DistinctVectors
    /\ \E i \in NodeIDs :
          /\ nodes[i + 1].vector = ret.query
          /\ i \in ret.visited
          /\ i # ret.start
          /\ Len(ret.results) >= 2

\* C10: the results of Search are in non-decreasing order of distance
C10_Sorted ==
    (ret.op = "Search" /\ ret.err = "nil") =>
        \A i \in 1..(Len(ret.results) - 1) :
            ret.results[i].Distance <= ret.results[i + 1].Distance

\* C10 witness: a result of three entries at three different distances
C10_Witness ==
    /\ ret.op = "Search" /\ ret.err = "nil"
    /\ Len(ret.results) >= 3
    /\ ret.results[1].Distance < ret.results[2].Distance
    /\ ret.results[2].Distance < ret.results[3].Distance

\* the sum of the squared differences of the first n components
RECURSIVE SquaresUpTo(_, _, _)
SquaresUpTo(a, b, n) ==
    IF n = 0 THEN 0
    ELSE SquaresUpTo(a, b, n - 1) + (a[n] - b[n]) * (a[n] - b[n])

\* C16: L2Distance(a, b) is the sum over the dimensions of (a[i] - b[i])^2, 27 for
\* <<1,2,3>> and <<4,5,6>>; it is not negative, the same for (b, a), and 0 for a = b
C16_L2IsSumOfSquares ==
    ret.op = "L2Distance" =>
        /\ ret.d = SquaresUpTo(ret.a, ret.b, Len(ret.a))
        /\ ret.d >= 0
        /\ ret.d = L2Distance(ret.b, ret.a)
        /\ ret.a = ret.b => ret.d = 0
        /\ (ret.a = <<1, 2, 3>> /\ ret.b = <<4, 5, 6>>) => ret.d = 27

\* C16 witness: the distance of <<1,2,3>> and <<4,5,6>> has been computed
C16_Witness ==
    ret.op = "L2Distance" /\ ret.a = <<1, 2, 3>> /\ ret.b = <<4, 5, 6>> /\ ret.d = 27

\* C11 as claimed: Search with ef < k returns what Search with ef = k returns, and
\* no fewer than min(k, Len()) results
C11_WidenedNotTruncated ==
    (ret.op = "Search" /\ ret.err = "nil" /\ ret.ef < ret.k) =>
        /\ ret.results = Search(nodes, entryPoint, maxLevel, ret.query, ret.k, ret.k).results
        /\ Len(ret.results) >= min(ret.k, LenOf(nodes))

\* C11 as amended: Search with ef < k returns what Search with ef = k returns, and
\* no fewer results than min(k, R), R the number of nodes reached along layer-0
\* lists from the node its layer-0 search starts at
C11_WidenedToK ==
    (ret.op = "Search" /\ ret.err = "nil" /\ ret.ef < ret.k) =>
        /\ ret.results = Search(nodes, entryPoint, maxLevel, ret.query, ret.k, ret.k).results
        /\ Len(ret.results) >= min(ret.k, Cardinality(Reach0({ret.start})))

\* C11 witness: a Search with 0 < ef < k that returned more than ef results
C11_Witness ==
    /\ ret.op = "Search" /\ ret.err = "nil"
    /\ 0 < ret.ef /\ ret.ef < ret.k
    /\ Len(ret.results) > ret.ef

\* C12: every node has level + 1 connection lists, and the nodes in a layer-L list
\* have a level of at least L
C12_LayersMatchLevel ==
    \A i \in NodeIDs :
        /\ Len(nodes[i + 1].connections) = nodes[i + 1].level + 1
        /\ \A l \in LayersOf(i) :
              \A j \in Elems(GetConnections(nodes[i + 1], l)) :
                  j \in NodeIDs /\ nodes[j + 1].level >= l

\* C12 witness: nodes of different levels, one linked above layer 0 and one not
C12_Witness ==
    \E i, j, n \in NodeIDs :
        /\ nodes[i + 1].level >= 1 /\ nodes[j + 1].level >= 1 /\ nodes[n + 1].level = 0
        /\ j \in Elems(GetConnections(nodes[i + 1], 1))
        /\ n \in Elems(GetConnections(nodes[i + 1], 0))

\* C15: a step never changes the id, the vector or the level of a node, never takes
\* a node out of the arena, and never changes the configuration
C15_NodesImmutable ==
    [][/\ Len(nodes') >= Len(nodes)
       /\ \A i \in 1..Len(nodes) :
             /\ nodes'[i].id = nodes[i].id
             /\ nodes'[i].vector = nodes[i].vector
             /\ nodes'[i].level = nodes[i].level
       /\ efConstruction' = efConstruction]_vars

\* C15 witness: a node whose list has been replaced by a pruned one after its
\* creation
C15_Witness ==
    \E i, j \in NodeIDs :
        /\ i # j
        /\ i \in Elems(GetConnections(nodes[j + 1], 0))
        /\ j \notin Elems(GetConnections(nodes[i + 1], 0))
        /\ ConnectionCount(nodes[i + 1], 0) = Mmax0

\* C13: once no Add is in progress and there are at least 2 nodes, every node has a
\* connection at layer 0
C13_ConnectedAtLayer0 ==
    (Quiescent /\ Len(nodes) >= 2) =>
        \A i \in NodeIDs : ConnectionCount(nodes[i + 1], 0) >= 1

\* C13 witness: two goroutines have added the second and the third node at the
\* same time and no Add is in progress
C13_Witness ==
    /\ Quiescent /\ Len(nodes) = ConcNodes
    /\ \A t \in 1..Goroutines : th[t].pc = "done" /\ th[t].op = "Add" /\ th[t].err = "nil"
    /\ \A i \in NodeIDs : ConnectionCount(nodes[i + 1], 0) >= 1

\* the goroutines inside the loop of searchLayer, a candidate popped
InLayer == {t \in 1..Goroutines : th[t].pc = "sl_read"}

\* the goroutines whose loop of searchLayer has ended
LayerEnded == {t \in 1..Goroutines : th[t].pc = "sl_done"}

\* the distance of node i from the query of goroutine t
QueryDist(t, i) == distFunc(th[t].vector, nodes[i + 1].vector)

\* C17: the candidate searchLayer has popped is no further from the query than any
\* candidate left in the frontier
C17_PopsNearest ==
    \A t \in InLayer :
        \A i \in 1..Len(th[t].s.candidates) :
            QueryDist(t, th[t].current) <= th[t].s.candidates[i].priority

\* C18: the loop of searchLayer ends by its break only with ef entries in the result
\* set and a popped candidate further than the furthest of them
C18_BreakOnlyWhenFull ==
    \A t \in LayerEnded :
        th[t].broke =>
            /\ Len(th[t].s.results) = th[t].ef
            /\ QueryDist(t, th[t].current) > Peek(th[t].s.results).priority

\* C18 witness: a loop ended by the break with candidates left
C18_Witness ==
    \E t \in LayerEnded :
        /\ th[t].broke
        /\ Len(th[t].s.candidates) > 0
        /\ th[t].ef = MaxEfConstruction

\* the ids of a heap's items are pairwise distinct
DistinctIDs(h) == \A i, j \in 1..Len(h) : i # j => h[i].value # h[j].value

\* C19: after every neighbour-processing step the result set holds at most ef
\* entries; searchLayer returns between 1 and ef results of distinct ids
C19_AtMostEf ==
    /\ \A t \in InLayer \cup LayerEnded : Len(th[t].s.results) <= th[t].ef
    /\ \A t \in LayerEnded :
          /\ Len(slDrain(th[t].s.results)) >= 1
          /\ Len(slDrain(th[t].s.results)) <= th[t].ef
          /\ DistinctIDs(th[t].s.results)
          /\ \A i \in 1..Len(th[t].s.results) :
                \E j \in 1..Len(th[t].s.results) :
                    slDrain(th[t].s.results)[j].ID = th[t].s.results[i].value

\* C19 witness: a searchLayer that ends with ef = 2 results after more than 2 nodes
\* were visited
C19_Witness ==
    \E t \in LayerEnded :
        /\ th[t].ef = MaxEfConstruction
        /\ Len(th[t].s.results) = th[t].ef
        /\ Cardinality(th[t].s.visited) > th[t].ef

\* the goroutines in the loop of searchLayer, at any of its steps
Traversing == {t \in 1..Goroutines : th[t].pc \in {"sl_read", "sl_locked", "sl_copied"}}

\* goroutine t holds no write lock
NoWriteLock(t) == globalLock # t /\ \A i \in 1..Len(nodeLocks) : nodeLocks[i] # t

\* goroutine t takes its copy of a list in this step
TakesCopy(t) == th[t].pc = "sl_locked" /\ th'[t].pc = "sl_copied"

\* goroutine t runs the loop over its copy in this step
RunsLoop(t) == th[t].pc = "sl_copied" /\ th'[t].pc # "sl_copied"

\* C20: searchLayer reads a node's list only while it holds that node's read lock
\* (and no writer has it); it holds that lock with no other lock; the loop over the
\* neighbours, where distances are computed, runs with the read lock released and
\* over the copy, whatever the list has become
C20_ReadUnderLockThenCopy ==
    /\ [](\A t \in Traversing :
             /\ th[t].pc = "sl_locked" =>
                   /\ th[t].rlocked = th[t].current
                   /\ nodeLocks[th[t].current + 1] = 0
                   /\ NoWriteLock(t)
             /\ th[t].pc # "sl_locked" => th[t].rlocked = -1)
    /\ [][\A t \in 1..Goroutines :
             /\ TakesCopy(t) =>
                   /\ th[t].rlocked = th[t].current
                   /\ th'[t].rlocked = -1
                   /\ \/ th'[t].neighborsCopy =
                            GetConnections(nodes[th[t].current + 1], th[t].lc)
                      \/ \E u \in 1..Goroutines : th[u].pc = "own_write"
                                                    /\ th[u].id = th[t].current
             /\ RunsLoop(t) =>
                   /\ th[t].rlocked = -1
                   /\ th'[t] = afterRead(nodes,
                                         [th[t] EXCEPT !.pc = "sl_read",
                                                       !.neighborsCopy = <<>>],
                                         th[t].neighborsCopy)]_vars

\* C20 witness: a goroutine about to run the loop over its copy of a list while
\* another goroutine holds the write lock of that node and has changed the list
C20_Witness ==
    \E t \in Traversing :
        /\ th[t].pc = "sl_copied"
        /\ Len(th[t].neighborsCopy) > 0
        /\ nodeLocks[th[t].current + 1] \notin {0, t}
        /\ th[t].neighborsCopy # GetConnections(nodes[th[t].current + 1], th[t].lc)

\* the goroutines with a call of Add or Search in progress
Started == {t \in 1..Goroutines : th[t].pc # "idle"}

\* C14: while a call of Add or Search is in progress some goroutine can take a
\* step: no interleaving of lock acquisitions, and nothing else, leaves a started
\* call unable to complete
C14_StartedCallsProceed == Started # {} => ENABLED (\E t \in 1..Goroutines : Step(t))

\* the goroutines that hold the global lock for writing
GlobalWriters == {t \in 1..Goroutines : globalLock = t}

\* C21: a goroutine holds the global write lock only for a node whose level is
\* greater than the current maxLevel
C21_WriteLockOnlyWhenHigher == \A t \in GlobalWriters : th[t].level > maxLevel

\* C21, amended: every Add of a vector of the right dimension takes the global
\* write lock once, in Add, to allocate its node; after that it takes the lock
\* again only in insert and only when the node's level is greater than the maxLevel
\* insert read at its start
C21_WriteLockToAllocOrRaise ==
    \A t \in GlobalWriters :
        \/ th[t].pc = "add_alloc"
        \/ th[t].pc = "ep_write" /\ th[t].level > th[t].maxLvl

\* C21 witness: the global write lock held by an Add whose node is no higher than
\* the top of a non-empty index
C21_Witness ==
    \E t \in GlobalWriters :
        /\ th[t].pc = "add_alloc"
        /\ entryPoint # -1
        /\ th[t].level <= maxLevel

\* the node locks goroutine t holds for writing
NodeWriteLocks(t) == {i \in 1..Len(nodeLocks) : nodeLocks[i] = t}

\* goroutine t holds the global lock, for reading or for writing
HoldsGlobal(t) == globalLock = t \/ th[t].pc = "ins_rlocked"

\* goroutine t holds the read lock of a node
HoldsNodeRead(t) == th[t].pc \in {"sl_locked", "sl_copied"} /\ th[t].rlocked # -1

\* the number of locks goroutine t holds
LocksHeld(t) ==
    (IF globalLock = t THEN 1 ELSE 0) + (IF th[t].pc = "ins_rlocked" THEN 1 ELSE 0)
    + Cardinality(NodeWriteLocks(t)) + (IF HoldsNodeRead(t) THEN 1 ELSE 0)

\* C22: a goroutine holds at most one lock at a time; while it holds the global
\* lock it is not in searchLayer, computes no distance and holds no node lock
C22_OneLockAtATime ==
    \A t \in 1..Goroutines :
        /\ LocksHeld(t) <= 1
        /\ HoldsGlobal(t) => th[t].pc \in {"add_alloc", "ins_rlocked", "ep_write"}
        /\ NodeWriteLocks(t) # {} => th[t].pc \in {"nb_link", "nb_unlock"}

\* C22 witness: one goroutine holds a neighbour's write lock with the list written
\* while another holds the global read lock in insert
C22_Witness ==
    \E t, u \in 1..Goroutines :
        /\ th[t].pc = "nb_unlock"
        /\ NodeWriteLocks(t) # {}
        /\ th[u].pc = "ins_rlocked"

\* the neighbour whose lock goroutine t holds or is about to take
NeighborOf(t) == th[t].neighbors[th[t].ni].ID

\* the list of the neighbour of goroutine t at the layer t is linking
NeighborList(t) == GetConnections(nodes[NeighborOf(t) + 1], th[t].lc)

\* goroutine t writes its neighbour's list in this step
WritesNeighbor(t) == th[t].pc = "nb_link" /\ th'[t].pc = "nb_unlock"

\* goroutine t releases its neighbour's lock in this step
ReleasesNeighbor(t) == th[t].pc = "nb_unlock" /\ th'[t].pc # "nb_unlock"

\* the distance between nodes i and j
NodeDist(i, j) == distFunc(nodes[i + 1].vector, nodes[j + 1].vector)

\* C23: the list insert writes under a neighbour's lock holds at most the bound of
\* the layer, and when it was trimmed exactly the bound, the closest to the
\* neighbour of its previous connections and the new node; when the lock is
\* released the neighbour's list holds at most the bound
C23_BoundAtRelease ==
    [][\A t \in 1..Goroutines :
          /\ WritesNeighbor(t) =>
                LET after == GetConnections(nodes'[NeighborOf(t) + 1], th[t].lc)
                    offered == Elems(th[t].conns) \cup {th[t].id}
                IN  /\ Len(after) <= maxConnAt(th[t].lc)
                    /\ Len(th[t].conns) + 1 > maxConnAt(th[t].lc) =>
                          /\ Len(after) = maxConnAt(th[t].lc)
                          /\ Elems(after) \subseteq offered
                          /\ \A a \in Elems(after), b \in offered \ Elems(after) :
                                NodeDist(NeighborOf(t), a) <= NodeDist(NeighborOf(t), b)
          /\ ReleasesNeighbor(t) => Len(NeighborList(t)) <= maxConnAt(th[t].lc)]_vars

\* goroutine t replaces its neighbour's list by a trimmed one in this step
TrimsNeighbor(t) ==
    /\ th[t].pc = "nb_link"
    /\ th'[t].pc # "nb_link"
    /\ Len(th[t].conns) + 1 > maxConnAt(th[t].lc)

\* C24: when insert trims a neighbour's list, the list it stores is a subset of the
\* list at lock acquisition plus the new node, every edge another insert has added
\* to that neighbour since the acquisition is still there, and no edge removed
\* since is back
C24_TrimFromFreshList ==
    [][\A t \in 1..Goroutines :
          TrimsNeighbor(t) =>
              LET before == Elems(NeighborList(t))
                  after == Elems(GetConnections(nodes'[NeighborOf(t) + 1], th[t].lc))
                  atLock == Elems(th[t].conns)
              IN  /\ after \subseteq atLock \cup {th[t].id}
                  /\ before \ atLock \subseteq after
                  /\ after \cap atLock \subseteq before]_vars

\* C25: once no call is in progress, an edge from u to v whose reverse is missing
\* has been pruned from v: the list of v at that layer holds exactly the bound
C25_AsymmetryOnlyByPruning ==
    Quiescent =>
        \A u, v \in NodeIDs : \A l \in LayersOf(u) :
            (/\ v \in Elems(GetConnections(nodes[u + 1], l))
             /\ u \notin Elems(GetConnections(nodes[v + 1], l)))
                => ConnectionCount(nodes[v + 1], l) = maxConnAt(l)

\* the goroutines in insert that have built all their edges and are about to write
\* entryPoint and maxLevel
RaisingEntry == {t \in 1..Goroutines : th[t].pc \in {"ep_lock", "ep_write"}}

\* C26: an insert writes entryPoint and maxLevel with the edges of its node built
\* at every layer it links, and while an insert is building the edges of its node
\* entryPoint is not that node
C26_EntryAfterEdges ==
    /\ \A t \in Inserting : entryPoint # th[t].id
    /\ \A t \in RaisingEntry :
          \A l \in 0..min(th[t].level, th[t].maxLvl) :
              ConnectionCount(nodes[th[t].id + 1], l) > 0

\* C26 witness: an insert at work from an entry point that is not the first node
\* and has its edges at two layers
C26_Witness ==
    \E t \in Inserting :
        /\ th[t].pc = "sl_read"
        /\ entryPoint \in th[t].s.visited
        /\ entryPoint # 0
        /\ ConnectionCount(nodes[entryPoint + 1], 0) > 0
        /\ ConnectionCount(nodes[entryPoint + 1], 1) > 0

\* goroutine t takes a step of insert in this step
StepsIn(t) == t \in Inserting /\ th'[t] # th[t]

\* goroutine t ends the linking of its node in this step
EndsLinking(t) == th[t].pc = "nb_link" /\ th'[t].pc \in {"ep_lock", "done"}

\* C27: insert goes on to write entryPoint and maxLevel exactly when the level of
\* its node is greater than the maxLevel it read at its start, and then writes the
\* node's id and level; every other step of insert leaves the two unchanged
C27_EntryRaisedIffHigher ==
    [][\A t \in 1..Goroutines :
          /\ EndsLinking(t) => (th'[t].pc = "ep_lock" <=> th[t].level > th[t].maxLvl)
          /\ StepsIn(t) =>
                IF th[t].pc = "ep_write"
                THEN /\ th[t].level > th[t].maxLvl
                     /\ entryPoint' = th[t].id
                     /\ maxLevel' = th[t].level
                ELSE UNCHANGED <<entryPoint, maxLevel>>]_vars

\* C27 witness: an insert has returned after raising the entry point to its node
C27_Witness ==
    \E t \in 1..Goroutines :
        /\ th[t].pc = "done"
        /\ th[t].op = "Add"
        /\ th[t].id > 0
        /\ entryPoint = th[t].id
        /\ maxLevel = nodes[th[t].id + 1].level

\* the last call was an Add that found the index empty and returned no error
AddedToEmpty == ret.op = "Add" /\ ret.err = "nil" /\ ret.before.entryPoint = -1

\* C28: after an Add on an empty index the index is the new node alone, with an
\* empty list at each of its layers, entryPoint its id and maxLevel its level; this
\* is what insert computes from entryPoint = -1 and maxLevel = -1, with no layer
\* searched and no layer linked
C28_FirstNode ==
    AddedToEmpty =>
        /\ ret.before.maxLevel = -1
        /\ Len(nodes) = 1
        /\ entryPoint = ret.id
        /\ maxLevel = ret.level
        /\ nodes[ret.id + 1].level = ret.level
        /\ Len(nodes[ret.id + 1].connections) = ret.level + 1
        /\ \A l \in 0..ret.level : ConnectionCount(nodes[ret.id + 1], l) = 0
        /\ descend(nodes, ret.vector, -1, -1, ret.level) = -1
        /\ build(nodes, efConstruction, ret.id, -1, min(ret.level, -1)) = nodes
        /\ insert(nodes, -1, -1, efConstruction, ret.id) = Before

\* C28 witness: an Add has returned the first node of the index, of the top level
C28_Witness == AddedToEmpty /\ ret.level = MaxLevel

\* goroutine record r is in searchLayer at layer lc with the given phase and ef
SearchesAt(r, phase, lc, ef) ==
    r.pc = "sl_read" /\ r.phase = phase /\ r.lc = lc /\ r.ef = ef

\* the pcs of an Add between two layer searches of phase 2
LinkingPcs == {"own_read", "own_write", "nb_lock", "nb_link"}

SelectedAll ==
    ret.op = "selectNeighborsHeuristic" /\ Len(ret.candidates) <= ret.m

\* C30: selectNeighborsHeuristic with len(candidates) <= m returns the candidates
\* as they are, the same results at the same positions, whatever their order
C30_FewCandidatesUnchanged ==
    SelectedAll =>
        /\ Len(ret.result) = Len(ret.candidates)
        /\ \A i \in 1..Len(ret.candidates) : ret.result[i] = ret.candidates[i]

\* C30 witness: a call with exactly m candidates, the furthest first, so that a
\* ranking would reorder them
C30_Witness ==
    /\ SelectedAll
    /\ Len(ret.candidates) = ret.m
    /\ ret.m >= 2
    /\ ret.candidates[1].Distance > ret.candidates[2].Distance

\* the number of positions of the sequence rs that hold x
CountIn(rs, x) == Cardinality({i \in DOMAIN rs : rs[i] = x})

\* the last call was selectNeighborsHeuristic with more candidates than m
SelectedSome ==
    ret.op = "selectNeighborsHeuristic" /\ Len(ret.candidates) > ret.m

\* C31: selectNeighborsHeuristic with len(candidates) > m returns m results, each
\* of them one of the candidates and none more often than it was a candidate, in
\* non-decreasing order of distance, and no candidate left out is nearer than a
\* result
C31_NearestMInOrder ==
    SelectedSome =>
        /\ Len(ret.result) = ret.m
        /\ \A i \in 1..Len(ret.result) :
              CountIn(ret.result, ret.result[i]) <= CountIn(ret.candidates, ret.result[i])
        /\ \A i \in 1..(Len(ret.result) - 1) :
              ret.result[i].Distance <= ret.result[i + 1].Distance
        /\ \A j \in 1..Len(ret.candidates) :
              CountIn(ret.result, ret.candidates[j]) < CountIn(ret.candidates, ret.candidates[j])
                 => \A i \in 1..Len(ret.result) :
                       ret.candidates[j].Distance >= ret.result[i].Distance

\* C31 witness: a call with more candidates than m whose first m candidates are
\* neither the nearest ones nor in order
C31_Witness ==
    /\ SelectedSome
    /\ ret.m = 2
    /\ Len(ret.candidates) = 3
    /\ ret.candidates[1].Distance > ret.candidates[2].Distance
    /\ ret.candidates[2].Distance > ret.candidates[3].Distance
    /\ ret.result = <<ret.candidates[3], ret.candidates[2]>>

\* C32: in every state, the middle of concurrent Add calls included, every id in a
\* connection list is the id of a node of the arena
C32_ListsHoldArenaIDs ==
    \A i \in NodeIDs : \A l \in LayersOf(i) :
        \A j \in Elems(GetConnections(nodes[i + 1], l)) : j \in NodeIDs

\* C37: in every state, no connection list of a node holds the node's own id
C37_NoSelfLoop ==
    \A i \in NodeIDs : \A l \in LayersOf(i) :
        i \notin Elems(GetConnections(nodes[i + 1], l))

\* C38: in every state, no connection list holds the same id twice
C38_NoDuplicateNeighbor ==
    \A i \in NodeIDs : \A l \in LayersOf(i) :
        Cardinality(Elems(GetConnections(nodes[i + 1], l)))
            = Len(GetConnections(nodes[i + 1], l))

\* the goroutines inside Add's locked section, about to append to nodes and nodeLocks
Appending == {t \in 1..Goroutines : th[t].pc = "add_alloc"}

\* the goroutines whose next step indexes nodes or nodeLocks: searchLayer at the
\* head of its loop or entered next, insert at a neighbour's lock or list
Indexing == {t \in 1..Goroutines : th[t].pc \in {"sl_read", "sl_done", "nb_lock", "nb_link"}}

\* the locks goroutine t holds: "global", or the id of a node
LockSet(t) ==
    (IF HoldsGlobal(t) THEN {"global"} ELSE {})
    \cup {i - 1 : i \in NodeWriteLocks(t)}
    \cup (IF HoldsNodeRead(t) THEN {th[t].rlocked} ELSE {})

\* C33: while a goroutine is about to append to the arena and the lock table, every
\* goroutine about to index them holds a lock the appending one holds too; and a
\* node in the arena has its id, its vector and its level + 1 connection lists
C33_AppendExcludesIndexing ==
    /\ \A t \in Appending : \A u \in Indexing : LockSet(t) \cap LockSet(u) # {}
    /\ \A i \in NodeIDs :
          /\ nodes[i + 1].id = i
          /\ Len(nodes[i + 1].vector) = dimension
          /\ Len(nodes[i + 1].connections) = nodes[i + 1].level + 1
    /\ Len(nodeLocks) = Len(nodes)

\* the ids in the result set of goroutine t
ResultIDs(t) == {th[t].s.results[i].value : i \in 1..Len(th[t].s.results)}

\* the largest distance in the result set of goroutine t
FurthestResult(t) == Peek(th[t].s.results).priority

\* C34: when the loop of searchLayer has ended, the result set holds at most ef of
\* the visited nodes, each with its distance from the query, and every visited node
\* that is not in it is at least as far as the furthest result, the result set
\* then holding ef entries; the array returned holds the same nodes
C34_ResultsAreClosestVisited ==
    \A t \in LayerEnded :
        /\ Len(th[t].s.results) <= th[t].ef
        /\ Len(th[t].s.results) >= 1
        /\ ResultIDs(t) \subseteq th[t].s.visited
        /\ \A i \in 1..Len(th[t].s.results) :
              /\ th[t].s.results[i].priority = QueryDist(t, th[t].s.results[i].value)
              /\ th[t].s.results[i].priority <= FurthestResult(t)
        /\ \A v \in th[t].s.visited \ ResultIDs(t) :
              /\ Len(th[t].s.results) = th[t].ef
              /\ QueryDist(t, v) >= FurthestResult(t)
        /\ Elems(IDs(slDrain(th[t].s.results))) = ResultIDs(t)

\* C34 witness: a searchLayer has ended with a full result set and a visited node
\* left out of it that is further than its furthest result
C34_Witness ==
    \E t \in LayerEnded :
        \E v \in th[t].s.visited \ ResultIDs(t) : QueryDist(t, v) > FurthestResult(t)

\* C35: no step lowers maxLevel
C35_MaxLevelNeverDecreases == [][maxLevel' >= maxLevel]_vars

\* entry point ep and top level top belong together in the arena ns
PairConsistent(ns, ep, top) ==
    /\ ep = -1 <=> top = -1
    /\ ep # -1 => ep \in 0..(Len(ns) - 1) /\ ns[ep + 1].level = top

\* C36: in every state in which no goroutine holds the global lock for writing,
\* entryPoint is -1 exactly when maxLevel is -1 and otherwise maxLevel is the level
\* of node entryPoint; so the pair insert reads under the read lock is such a pair,
\* and insert's first searchLayer starts at that node with that maxLevel
C36_EntryPairConsistent ==
    [][/\ globalLock = 0 => PairConsistent(nodes, entryPoint, maxLevel)
       /\ globalLock' = 0 => PairConsistent(nodes', entryPoint', maxLevel')
       /\ \A t \in 1..Goroutines :
             (th[t].pc = "ins_snapshot" /\ th'[t] # th[t]) =>
                 /\ globalLock = 0
                 /\ th'[t].maxLvl = maxLevel
                 /\ th'[t].current = entryPoint
                 /\ PairConsistent(nodes, th'[t].current, th'[t].maxLvl)
    ]_vars

\* C36 witness: an insert has raised the entry point to its node, and another
\* insert has taken its snapshot of the new pair
C36_Witness ==
    /\ globalLock = 0
    /\ entryPoint > 0
    /\ \E t \in 1..Goroutines :
          /\ th[t].pc = "sl_read"
          /\ th[t].maxLvl = maxLevel
          /\ th[t].maxLvl > nodes[1].level

\* the level of node i
LevelOf(i) == nodes[i + 1].level

\* goroutine t is in insert's searchLayer at its start: only the node it started
\* from is visited
AtLayerStart(t) ==
    /\ th[t].pc = "sl_read"
    /\ th[t].op = "Add"
    /\ th[t].s.visited = {th[t].current}

\* C39: every searchLayer of insert at layer lc starts from a node of level >= lc,
\* and every neighbour insert selects at layer lc is a node of level >= lc, so that
\* AddConnection(lc, newNodeID) on the neighbour is not dropped
C39_NeighborsHaveTheLayer ==
    \A t \in 1..Goroutines :
        /\ AtLayerStart(t) => LevelOf(th[t].current) >= th[t].lc
        /\ th[t].pc \in LinkingPcs =>
              \A i \in 1..Len(th[t].neighbors) :
                  /\ th[t].neighbors[i].ID \in NodeIDs
                  /\ LevelOf(th[t].neighbors[i].ID) >= th[t].lc

\* the last call was made on a Writer whose Close had been called
OnClosedWriter == ret.op \in {"WriteRecordBatch", "Close"} /\ ret.before.closed

\* C40: a call of Close leaves the Writer closed, failed or not; WriteRecordBatch
\* and Close on a closed Writer return an error and leave the row count, the page
\* index and every other field of the Writer as they were
C40_ClosedWriterRejects ==
    /\ ret.op = "Close" => w.closed
    /\ OnClosedWriter =>
          /\ ret.err # "nil"
          /\ w.closed
          /\ w.NumRows = ret.before.NumRows
          /\ w.Indices = ret.before.Indices
          /\ w.NumPages = ret.before.NumPages
          /\ w = ret.before

\* C40 witness: a batch that an open Writer would accept has been written to a
\* Writer that holds pages and whose Close had failed
C40_Witness ==
    /\ ret.op = "WriteRecordBatch"
    /\ ret.before.closed
    /\ ret.before.fileOpen
    /\ ret.before.NumRows > 0
    /\ ret.batch = Batch(TRUE, 1, 0)

====
